---- MODULE Spec2Model ----
(***************************************************************************)
(* Model of the LLM grading core of educational_feedback_generator:        *)
(*   - LLMGrader (src/src/ai_grading/llm_grader.py): completion parser,    *)
(*     fallback result, grade_response;                                    *)
(*   - the LLM backends (src/src/ai_grading/llm_interface.py);             *)
(*   - AIGradingAgent (src/src/ai_grading/ai_grading_agent.py):            *)
(*     grade_notebook, grade_directory, clear_results.                     *)
(*                                                                         *)
(* Numbers: scores and points are integers; a confidence is kept in        *)
(* hundredths (0.7 is 70); a percentage is an exact fraction n/d.          *)
(* A JSON value is a record [t, n]: t is its JSON type ("absent" when the  *)
(* key is missing from the object), n its number when t = "num".           *)
(***************************************************************************)
EXTENDS Integers, Sequences, FiniteSets, TLC

\* ------------------------------------------------------------------ bounds
MaxLen == 3        \* longest completion text, in tokens
MaxScore == 2      \* largest score of one criterion in a completion
MaxTotal == 4      \* largest total_score a completion states
MaxPoints == 3     \* largest rubric.total_points of the parser's inputs
MaxCalls == 2      \* calls of the parser on one input

\* ------------------------------------------------------- program constants
ConfThreshold == 70     \* confidence < 0.7
DefaultConfidence == 50 \* parsed.get('confidence', 0.5)

\* ------------------------------------------------------------- JSON values
Absent == [t |-> "absent", n |-> 0]
Num(k) == [t |-> "num", n |-> k]
Str == [t |-> "str", n |-> 0]

\* A scores value: "map" is an object of numbers (m), "map_str" an object
\* holding a string value, "list" a JSON array.
EmptyMap == [x \in {} |-> 0]
ScoresAbsent == [t |-> "absent", m |-> EmptyMap]
ScoresMap(f) == [t |-> "map", m |-> f]
ScoresMapStr == [t |-> "map_str", m |-> EmptyMap]
ScoresList == [t |-> "list", m |-> EmptyMap]

EmptyPayload ==
  [scores |-> ScoresAbsent, total_score |-> Absent, confidence |-> Absent,
   percentage |-> Absent, feedback |-> FALSE, suggestions |-> FALSE]

\* ------------------------------------------------------------- arithmetic
RECURSIVE GCD(_, _)
GCD(a, b) == IF b = 0 THEN a ELSE GCD(b, a % b)

\* mutant: the quotient without its fraction
Frac_floor(n, d) == [t |-> "num", n |-> n \div d, d |-> 1]

\* the exact value of n / d, d > 0, n >= 0
Frac(n, d) == LET g == GCD(n, d) IN [t |-> "num", n |-> n \div g, d |-> d \div g]

RECURSIVE SumOver(_, _)
SumOver(f, D) ==
  IF D = {} THEN 0
  ELSE LET x == CHOOSE y \in D : TRUE IN f[x] + SumOver(f, D \ {x})

\* mutant: len(scores) in place of sum(scores.values())
SumValues_len(f) == Cardinality(DOMAIN f)

\* sum(scores.values())
SumValues(f) == SumOver(f, DOMAIN f)

\* ------------------------------------------------------------ str methods
\* str.find: the 0-based index of the first occurrence, -1 when none
Find(s, tok) ==
  IF \E i \in 1..Len(s) : s[i] = tok
  THEN (CHOOSE i \in 1..Len(s) : s[i] = tok /\ \A j \in 1..(i - 1) : s[j] # tok) - 1
  ELSE -1

\* str.rfind: the 0-based index of the last occurrence, -1 when none
RFind(s, tok) ==
  IF \E i \in 1..Len(s) : s[i] = tok
  THEN (CHOOSE i \in 1..Len(s) : s[i] = tok /\ \A j \in (i + 1)..Len(s) : s[j] # tok) - 1
  ELSE -1

\* s[a:b] for 0 <= a and 0 <= b
Slice(s, a, b) == IF b <= a THEN <<>> ELSE SubSeq(s, a + 1, b)

\* json.loads of a text that starts at a "{" and ends at a "}": the text
\* "{}" is the empty object, "{" members "}" the object of the members
\* (the token "kv" stands for the members, whose values are the payload).
JsonLoads(json_str, payload) ==
  IF json_str = <<"{", "}">> THEN [ok |-> TRUE, obj |-> EmptyPayload]
  ELSE IF json_str = <<"{", "kv", "}">> THEN [ok |-> TRUE, obj |-> payload]
  ELSE [ok |-> FALSE, obj |-> EmptyPayload]

\* ---------------------------------------------------------- GradingResult
ZeroPct == [t |-> "num", n |-> 0, d |-> 1]
ReviewSuggestion == <<"Please review this submission manually">>
LLMSuggestions == <<"llm suggestion">>

NoResult ==
  [problem_id |-> "", student_id |-> "", scores |-> EmptyMap, total_score |-> 0,
   max_possible |-> 0, percentage |-> ZeroPct, feedback |-> "",
   suggestions |-> <<>>, confidence |-> 0, flagged_for_review |-> FALSE]

Returned(r) == [exc |-> "", result |-> r]
Raised(e) == [exc |-> e, result |-> NoResult]

\* mutant: the fallback result leaves flagged_for_review at the dataclass
\* default
create_error_result_unflagged(response, rubric, error_msg) ==
  [problem_id |-> response.problem_id,
   student_id |-> "",
   scores |-> [c \in {rubric.criteria[i] : i \in 1..Len(rubric.criteria)} |-> 0],
   total_score |-> 0,
   max_possible |-> rubric.total_points,
   percentage |-> ZeroPct,
   feedback |-> "Grading error occurred: " \o error_msg,
   suggestions |-> ReviewSuggestion,
   confidence |-> 0,
   flagged_for_review |-> FALSE]

\* LLMGrader._create_error_result
create_error_result(response, rubric, error_msg) ==
  [problem_id |-> response.problem_id,
   student_id |-> "",
   scores |-> [c \in {rubric.criteria[i] : i \in 1..Len(rubric.criteria)} |-> 0],
   total_score |-> 0,
   max_possible |-> rubric.total_points,
   percentage |-> ZeroPct,
   feedback |-> "Grading error occurred: " \o error_msg,
   suggestions |-> ReviewSuggestion,
   confidence |-> 0,
   flagged_for_review |-> TRUE]

\* mutant: confidence <= 0.7
Flagged_le(confidence, total_score, total_points) ==
  confidence <= ConfThreshold \/ total_score > total_points

\* mutant: the score overrun is not looked at
Flagged_confidence_only(confidence, total_score, total_points) ==
  confidence < ConfThreshold

\* confidence < 0.7 or total_score > rubric.total_points
Flagged(confidence, total_score, total_points) ==
  confidence < ConfThreshold \/ total_score > total_points

\* The body of _parse_llm_response after json.loads succeeded.  Python
\* evaluates the default argument of dict.get before the call, so
\* sum(scores.values()) and total_score / rubric.total_points are computed
\* (and may raise) whether or not the key is present.
parse_object(parsed, response, rubric) ==
  LET scores == IF parsed.scores.t = "absent" THEN ScoresMap(EmptyMap) ELSE parsed.scores
  IN
  IF scores.t = "list" THEN Raised("AttributeError")
  ELSE IF scores.t = "map_str" THEN Raised("TypeError")
  ELSE
    LET total_score == IF parsed.total_score.t = "absent"
                       THEN Num(SumValues(scores.m)) ELSE parsed.total_score
        confidence == IF parsed.confidence.t = "absent"
                      THEN Num(DefaultConfidence) ELSE parsed.confidence
    IN
    \* line 156: confidence < 0.7 raises on a non-number; the right operand
    \* of "or" is compared only when the left one is false
    IF confidence.t # "num" THEN Raised("TypeError")
    ELSE IF ~(confidence.n < ConfThreshold) /\ total_score.t # "num" THEN Raised("TypeError")
    \* line 164: total_score / rubric.total_points
    ELSE IF total_score.t # "num" THEN Raised("TypeError")
    ELSE IF rubric.total_points = 0 THEN Raised("ZeroDivisionError")
    ELSE Returned(
      [problem_id |-> response.problem_id,
       student_id |-> "",
       scores |-> scores.m,
       total_score |-> total_score.n,
       max_possible |-> rubric.total_points,
       percentage |-> IF parsed.percentage.t = "absent"
                      THEN Frac(total_score.n * 100, rubric.total_points)
                      ELSE IF parsed.percentage.t = "num"
                           THEN [t |-> "num", n |-> parsed.percentage.n, d |-> 1]
                           ELSE [t |-> parsed.percentage.t, n |-> 0, d |-> 1],
       feedback |-> IF parsed.feedback THEN "llm feedback" ELSE "No feedback provided",
       suggestions |-> IF parsed.suggestions THEN LLMSuggestions ELSE <<>>,
       confidence |-> confidence.n,
       flagged_for_review |-> Flagged(confidence.n, total_score.n, rubric.total_points)])

\* LLMGrader._parse_llm_response
parse_llm_response(llm_response, response, rubric) ==
  LET json_start == Find(llm_response.text, "{")
      json_end == RFind(llm_response.text, "}") + 1
  IN
  IF json_start = -1 \/ json_end = 0
  THEN Returned(create_error_result(response, rubric,
                  "Parse error: No JSON found in LLM response"))
  ELSE
    LET loaded == JsonLoads(Slice(llm_response.text, json_start, json_end),
                            llm_response.payload)
    IN
    IF ~loaded.ok
    THEN Returned(create_error_result(response, rubric, "Parse error: JSONDecodeError"))
    ELSE parse_object(loaded.obj, response, rubric)

\* ------------------------------------------------- inputs of the parser
Tokens == {"txt", "{", "}", "kv"}
Texts == UNION {[1..k -> Tokens] : k \in 0..MaxLen}
CritNames == {"c1", "c2"}
ScoreMaps == UNION {[D -> 0..MaxScore] : D \in SUBSET CritNames}
ScoresValues == {ScoresAbsent, ScoresMapStr, ScoresList} \cup {ScoresMap(f) : f \in ScoreMaps}
TotalValues == {Absent, Str} \cup {Num(k) : k \in 0..MaxTotal}
ConfValues == {Absent, Str, Num(69), Num(70), Num(150)}
PctValues == {Absent, Str, Num(50)}

Payloads ==
  {[scores |-> s, total_score |-> ts, confidence |-> c, percentage |-> p,
    feedback |-> b, suggestions |-> b] :
     s \in ScoresValues, ts \in TotalValues, c \in ConfValues, p \in PctValues,
     b \in BOOLEAN}

ObjectText == <<"{", "kv", "}">>

Completions ==
  {[text |-> t, payload |-> EmptyPayload] : t \in Texts}
    \cup {[text |-> ObjectText, payload |-> p] : p \in Payloads}

ParseRubrics ==
  {[problem_id |-> "part_1", total_points |-> tp, criteria |-> cs] :
     tp \in 1..MaxPoints, cs \in {<<"c1">>, <<"c1", "c2">>}}

ParseResponse == [problem_id |-> "part_1"]

\* ------------------------------------------------------------ LLM backends
\* what MockLLM.generate_response returns: scores 12 + 8 + 4, total 24,
\* percentage 80.0, confidence 0.85, a feedback and suggestions
MockCompletion ==
  [text |-> ObjectText,
   payload |-> [scores |-> ScoresMap([c \in {"insight_quality", "code_quality", "visualization"} |->
                                        IF c = "insight_quality" THEN 12
                                        ELSE IF c = "code_quality" THEN 8 ELSE 4]),
                total_score |-> Num(24), confidence |-> Num(85), percentage |-> Num(80),
                feedback |-> TRUE, suggestions |-> TRUE]]

\* completions a model may return: no JSON at all, an object whose scores is
\* a list, an object whose percentage is a string ("80%")
MalformedCompletion == [text |-> <<"txt">>, payload |-> EmptyPayload]
ListScoresCompletion ==
  [text |-> ObjectText, payload |-> [EmptyPayload EXCEPT !.scores = ScoresList]]
BadPctCompletion ==
  [text |-> ObjectText,
   payload |-> [EmptyPayload EXCEPT !.total_score = Num(20), !.confidence = Num(90),
                                    !.percentage = Str]]

\* the completion {"scores": {"c": 8}, "total_score": 8, "confidence": 0.9}
ScenarioCompletion ==
  [text |-> ObjectText,
   payload |-> [EmptyPayload EXCEPT !.scores = ScoresMap([c \in {"c"} |-> 8]),
                                    !.total_score = Num(8), !.confidence = Num(90)]]

\* The outcome of the call to the model's API for one prompt: "fail" (the
\* API call errors) or the completion the model returns.  "none" marks a
\* response for which the model is never called.
ApiOutcomes == {"fail", "good", "malformed", "list_scores", "bad_pct"}
ApiCompletion(api) ==
  IF api = "good" THEN MockCompletion
  ELSE IF api = "malformed" THEN MalformedCompletion
  ELSE IF api = "list_scores" THEN ListScoresCompletion
  ELSE IF api = "scenario" THEN ScenarioCompletion
  ELSE BadPctCompletion

\* "custom" is any other implementation of LLMInterface, whose
\* generate_response may raise
Backends == {"MockLLM", "OpenAIGPT", "AnthropicClaude", "custom"}

TextReturned(c) == [exc |-> "", completion |-> c]
TextRaised(e) == [exc |-> e, completion |-> MalformedCompletion]

\* MockLLM.generate_response
mock_generate_response == TextReturned(MockCompletion)

\* mutant: the API error propagates
vendor_generate_response_raises(api) ==
  IF api = "fail" THEN TextRaised("Exception") ELSE TextReturned(ApiCompletion(api))

\* OpenAIGPT.generate_response, AnthropicClaude.generate_response: the API
\* error is caught and the mock's completion returned
vendor_generate_response(api) ==
  IF api = "fail" THEN mock_generate_response ELSE TextReturned(ApiCompletion(api))

\* self.llm.generate_response(prompt, max_tokens=1500)
generate_response(backend, api) ==
  IF backend = "MockLLM" THEN mock_generate_response
  ELSE IF backend \in {"OpenAIGPT", "AnthropicClaude"} THEN vendor_generate_response(api)
  ELSE IF api = "fail" THEN TextRaised("Exception") ELSE TextReturned(ApiCompletion(api))

\* -------------------------------------------------------------- LLMGrader
\* mutant: no try/except around the call of the model
grade_response_propagates(backend, api, response, rubric) ==
  LET llm_response == generate_response(backend, api) IN
  IF llm_response.exc # ""
  THEN [exc |-> llm_response.exc, logged |-> FALSE, result |-> NoResult]
  ELSE LET parsed == parse_llm_response(llm_response.completion, response, rubric) IN
       IF parsed.exc # ""
       THEN [exc |-> "", logged |-> FALSE,
             result |-> create_error_result(response, rubric, parsed.exc)]
       ELSE [exc |-> "", logged |-> TRUE, result |-> parsed.result]

\* LLMGrader.grade_response: [exc, result, logged]; logged tells whether an
\* entry was appended to grading_history
grade_response(backend, api, response, rubric) ==
  LET llm_response == generate_response(backend, api) IN
  IF llm_response.exc # ""
  THEN [exc |-> "", logged |-> FALSE,
        result |-> create_error_result(response, rubric, llm_response.exc)]
  ELSE LET parsed == parse_llm_response(llm_response.completion, response, rubric) IN
       IF parsed.exc # ""
       THEN [exc |-> "", logged |-> FALSE,
             result |-> create_error_result(response, rubric, parsed.exc)]
       ELSE [exc |-> "", logged |-> TRUE, result |-> parsed.result]

\* ----------------------------------------------------------- RubricManager
\* RubricManager._parse_txt_rubric (src/src/reports): whatever the file
\* holds, the assignment rubric has the one problem part_1
TxtRubricProblems == {"part_1"}
TxtRubric(problem_id) ==
  [problem_id |-> problem_id, total_points |-> 30,
   criteria |-> <<"content_quality", "implementation", "presentation">>]

\* LLMGrader.grade_response on every backend, API outcome and problem of the
\* assignment rubric: the call depends on nothing else
GradeResponses ==
  [backend \in Backends, api \in ApiOutcomes, problem_id \in TxtRubricProblems |->
     grade_response(backend, api, [problem_id |-> problem_id], TxtRubric(problem_id))]

\* ------------------------------------------------------------ environment
MaxResponses == 2  \* responses of one notebook
MaxResults == 2    \* length of the coordinator's results list
MaxHistory == 2    \* length of the grader's grading_history

Assignments == {"hw1"}
NotebookFiles == {"nb_a.ipynb", "nb_b.ipynb"}
DirEntries == NotebookFiles \cup {"notes.txt"}
ProblemIds == {"part_1", "part_2"}

\* NotebookParser._extract_student_name: the file name without .ipynb, its
\* underscores replaced by spaces
extract_student_name(file) ==
  IF file = "nb_a.ipynb" THEN "nb a" ELSE IF file = "nb_b.ipynb" THEN "nb b" ELSE file

\* f.endswith('.ipynb')
IsNotebook(f) == f \in NotebookFiles

\* What reading one notebook gives: parse_notebook raises (ok = FALSE) or
\* returns the responses; each response comes with the outcome of the API
\* call its prompt will get.
\* MockLLM calls no API: its one outcome is its constant completion.
ApiOutcomesOf(backend) == IF backend = "MockLLM" THEN {"good"} ELSE ApiOutcomes
Responses(backend) ==
  {[problem_id |-> pid, api |-> a] :
     pid \in ProblemIds \cap TxtRubricProblems, a \in ApiOutcomesOf(backend)}
    \cup {[problem_id |-> pid, api |-> "none"] : pid \in ProblemIds \ TxtRubricProblems}
ResponseSeqs(backend) == UNION {[1..k -> Responses(backend)] : k \in 0..MaxResponses}
NotebookInputs(backend) ==
  {[ok |-> FALSE, responses |-> <<>>]}
    \cup {[ok |-> TRUE, responses |-> rs] : rs \in ResponseSeqs(backend)}

\* the listings os.listdir may return: distinct entries in any order
Listings ==
  {l \in UNION {[1..k -> DirEntries] : k \in 0..Cardinality(DirEntries)} :
     \A i, j \in 1..Len(l) : i # j => l[i] # l[j]}

\* ------------------------------------------------------------------ state
VARIABLES
  p_in,            \* the input of the function under call (SpecParse: the
                   \* completion and rubric; SpecCell: a cell; SpecNotebook: the
                   \* cells; SpecAggregate: the runs and the configuration;
                   \* SpecRubric: the kind of the rubric managers)
  p_out,           \* the outcomes of the calls of the function on p_in, in call order
  llm,             \* AIGradingAgent.grader.llm: the backend
  results,         \* AIGradingAgent.results
  grading_history, \* LLMGrader.grading_history
  loaded_rubrics,  \* RubricManager.loaded_rubrics: the cached assignment ids
                   \* (SpecRubric: the dictionaries of the managers)
  rubric_files,    \* the assignment ids that have a rubric file on disk
                   \* (SpecRubric: what the file of each assignment holds)
  pc,              \* "idle"; "dir" inside grade_directory's loop; "returned"
                   \* when grade_directory has returned all_results
  assignment_id,   \* grade_directory: the assignment of the pass
  pending,         \* grade_directory: the notebook files still to grade
  notebook_files,  \* grade_directory: the notebook files of the pass
  all_results,     \* grade_directory: file -> results, for the files done
  dir_raised,      \* the files of the pass whose grade_notebook raised
  last             \* the last grade_notebook call: its inputs and its outcome

parse_vars == <<p_in, p_out>>
agent_vars == <<llm, results, grading_history, loaded_rubrics, rubric_files, pc,
                assignment_id, pending, notebook_files, all_results, dir_raised, last>>
vars == <<p_in, p_out, llm, results, grading_history, loaded_rubrics, rubric_files,
          pc, assignment_id, pending, notebook_files, all_results, dir_raised, last>>

NoFiles == [f \in {} |-> <<>>]
NoCall ==
  [called |-> FALSE, file |-> "", nb |-> [ok |-> FALSE, responses |-> <<>>],
   io_ok |-> TRUE, exc |-> "", returned |-> <<>>, graded |-> <<>>]

AgentInit ==
  /\ llm \in Backends
  /\ results = <<>>
  /\ grading_history = <<>>
  /\ loaded_rubrics = {}
  /\ rubric_files \in SUBSET Assignments
  /\ pc = "idle"
  /\ assignment_id = ""
  /\ pending = <<>>
  /\ notebook_files = <<>>
  /\ all_results = NoFiles
  /\ dir_raised = {}
  /\ last = NoCall

\* ------------------------------------------------------- AIGradingAgent
\* RubricManager.load_assignment_rubric (src/src/reports): a cached
\* assignment is returned without any I/O; otherwise a missing file is
\* created from the default rubric, then the file is read (io_ok tells
\* whether reading succeeds) and the rubric cached.
load_assignment_rubric(assignment, io_ok) ==
  IF assignment \in loaded_rubrics
  THEN [exc |-> "", loaded |-> loaded_rubrics, files |-> rubric_files]
  ELSE IF ~io_ok
  THEN [exc |-> "OSError", loaded |-> loaded_rubrics,
        files |-> rubric_files \cup {assignment}]
  ELSE [exc |-> "", loaded |-> loaded_rubrics \cup {assignment},
        files |-> rubric_files \cup {assignment}]

\* print(f"... ({result.percentage:.1f}%)"): the format raises on a
\* percentage that is not a number
PrintRaises(result) == result.percentage.t # "num"

\* The loop of grade_notebook over the responses rs, from the accumulator
\* acc = [exc, notebook_results, history, graded]: history lists the entries
\* the loop appends to grading_history, graded what its grade_response calls
\* returned, in call order.
RECURSIVE GradeLoop(_, _, _, _)
GradeLoop(backend, file, rs, acc) ==
  IF rs = <<>> THEN acc
  ELSE
    LET r == Head(rs) IN
    IF r.problem_id \notin TxtRubricProblems
    THEN GradeLoop(backend, file, Tail(rs), acc)
    ELSE
      LET g == GradeResponses[backend, r.api, r.problem_id]
          \* result.student_id = student_name
          result == [g.result EXCEPT !.student_id = extract_student_name(file)]
          hist == IF g.logged THEN Append(acc.history, r.problem_id) ELSE acc.history
      IN
      IF g.exc # "" THEN [acc EXCEPT !.exc = g.exc]
      ELSE IF PrintRaises(result)
      THEN [exc |-> "ValueError", notebook_results |-> acc.notebook_results,
            history |-> hist, graded |-> Append(acc.graded, result)]
      ELSE GradeLoop(backend, file, Tail(rs),
                     [exc |-> "", notebook_results |-> Append(acc.notebook_results, result),
                      history |-> hist, graded |-> Append(acc.graded, result)])

\* the loop on every notebook of the model: it reads no state of the agent
NotebookLoops ==
  [backend \in Backends |->
     [file \in NotebookFiles |->
        [rs \in ResponseSeqs(backend) |->
           GradeLoop(backend, file, rs,
                     [exc |-> "", notebook_results |-> <<>>, history |-> <<>>,
                      graded |-> <<>>])]]]

\* mutant: each result is appended to self.results inside the loop
grade_notebook_extends_in_loop(file, assignment, nb, io_ok) ==
  IF ~nb.ok
  THEN [exc |-> "ParseError", returned |-> <<>>, history |-> grading_history,
        loaded |-> loaded_rubrics, files |-> rubric_files, graded |-> <<>>]
  ELSE
    LET rub == load_assignment_rubric(assignment, io_ok) IN
    IF rub.exc # ""
    THEN [exc |-> rub.exc, returned |-> <<>>, history |-> grading_history,
          loaded |-> rub.loaded, files |-> rub.files, graded |-> <<>>]
    ELSE
      LET loop == NotebookLoops[llm][file][nb.responses]
      IN [exc |-> loop.exc,
          returned |-> loop.notebook_results,
          history |-> grading_history \o loop.history,
          loaded |-> rub.loaded, files |-> rub.files,
          graded |-> loop.graded]

\* AIGradingAgent.grade_notebook on the notebook nb of the file:
\* [exc, returned, history, loaded, files, graded]; results is extended by
\* returned when exc = "".
grade_notebook(file, assignment, nb, io_ok) ==
  IF ~nb.ok
  THEN [exc |-> "ParseError", returned |-> <<>>, history |-> grading_history,
        loaded |-> loaded_rubrics, files |-> rubric_files, graded |-> <<>>]
  ELSE
    LET rub == load_assignment_rubric(assignment, io_ok) IN
    IF rub.exc # ""
    THEN [exc |-> rub.exc, returned |-> <<>>, history |-> grading_history,
          loaded |-> rub.loaded, files |-> rub.files, graded |-> <<>>]
    ELSE
      LET loop == NotebookLoops[llm][file][nb.responses]
      IN [exc |-> loop.exc,
          returned |-> IF loop.exc = "" THEN loop.notebook_results ELSE <<>>,
          history |-> grading_history \o loop.history,
          loaded |-> rub.loaded, files |-> rub.files,
          graded |-> loop.graded]

CallLog(file, nb, io_ok, out) ==
  [called |-> TRUE, file |-> file, nb |-> nb, io_ok |-> io_ok,
   exc |-> out.exc, returned |-> out.returned, graded |-> out.graded]

\* mutant: self.results = notebook_results
ApplyGradeNotebook_replaces(file, nb, io_ok, out) ==
  /\ Len(results) + Len(out.returned) <= MaxResults
  /\ Len(out.history) <= MaxHistory
  /\ results' = out.returned
  /\ grading_history' = out.history
  /\ loaded_rubrics' = out.loaded
  /\ rubric_files' = out.files
  /\ last' = CallLog(file, nb, io_ok, out)

\* the effect of one grade_notebook call on the coordinator
ApplyGradeNotebook(file, nb, io_ok, out) ==
  /\ Len(results) + Len(out.returned) <= MaxResults
  /\ Len(out.history) <= MaxHistory
  /\ results' = results \o out.returned
  /\ grading_history' = out.history
  /\ loaded_rubrics' = out.loaded
  /\ rubric_files' = out.files
  /\ last' = CallLog(file, nb, io_ok, out)

\* the I/O outcomes that matter to a call: none when the rubric is cached
IoOutcomes(assignment) == IF assignment \in loaded_rubrics THEN {TRUE} ELSE BOOLEAN

\* a caller grades one notebook
GradeNotebook ==
  /\ pc \in {"idle", "returned"}
  /\ \E file \in NotebookFiles, a \in Assignments, nb \in NotebookInputs(llm) :
       \E io_ok \in IoOutcomes(a) :
         \E out \in {grade_notebook(file, a, nb, io_ok)} :
           ApplyGradeNotebook(file, nb, io_ok, out)
  /\ pc' = "idle"
  /\ assignment_id' = ""
  /\ pending' = <<>>
  /\ notebook_files' = <<>>
  /\ all_results' = NoFiles
  /\ dir_raised' = {}
  /\ UNCHANGED llm

\* grade_directory up to its loop: the path is not a directory or holds no
\* notebook (return {}), or the pass over the notebook files starts
GradeDirectoryBegin ==
  /\ pc \in {"idle", "returned"}
  /\ \E isdir \in BOOLEAN, listing \in Listings, a \in Assignments :
       LET files == SelectSeq(listing, IsNotebook) IN
       /\ pc' = IF ~isdir \/ files = <<>> THEN "returned" ELSE "dir"
       /\ assignment_id' = a
       /\ pending' = IF isdir THEN files ELSE <<>>
       /\ notebook_files' = IF isdir THEN files ELSE <<>>
  /\ all_results' = NoFiles
  /\ dir_raised' = {}
  /\ last' = NoCall
  /\ UNCHANGED <<llm, results, grading_history, loaded_rubrics, rubric_files>>

\* mutant: the except branch records no placeholder for the file
GradeDirectoryStep_no_placeholder ==
  /\ pc = "dir"
  /\ pending # <<>>
  /\ \E nb \in NotebookInputs(llm) :
       \E io_ok \in IoOutcomes(assignment_id) :
         \E file \in {Head(pending)} :
         \E out \in {grade_notebook(file, assignment_id, nb, io_ok)} :
            /\ ApplyGradeNotebook(file, nb, io_ok, out)
            /\ all_results' = IF out.exc = "" THEN (file :> out.returned) @@ all_results
                               ELSE all_results
            /\ dir_raised' = IF out.exc = "" THEN dir_raised ELSE dir_raised \cup {file}
  /\ pending' = Tail(pending)
  /\ UNCHANGED <<llm, pc, assignment_id, notebook_files>>

\* one iteration of grade_directory's loop: grade_notebook under try/except
GradeDirectoryStep ==
  /\ pc = "dir"
  /\ pending # <<>>
  /\ \E nb \in NotebookInputs(llm) :
       \E io_ok \in IoOutcomes(assignment_id) :
         \E file \in {Head(pending)} :
         \E out \in {grade_notebook(file, assignment_id, nb, io_ok)} :
            /\ ApplyGradeNotebook(file, nb, io_ok, out)
            /\ all_results' = (file :> (IF out.exc = "" THEN out.returned ELSE <<>>))
                                @@ all_results
            /\ dir_raised' = IF out.exc = "" THEN dir_raised ELSE dir_raised \cup {file}
  /\ pending' = Tail(pending)
  /\ UNCHANGED <<llm, pc, assignment_id, notebook_files>>

\* grade_directory returns all_results
GradeDirectoryReturn ==
  /\ pc = "dir"
  /\ pending = <<>>
  /\ pc' = "returned"
  /\ UNCHANGED <<llm, results, grading_history, loaded_rubrics, rubric_files,
                 assignment_id, pending, notebook_files, all_results, dir_raised, last>>

\* AIGradingAgent.clear_results
clear_results ==
  /\ pc \in {"idle", "returned"}
  /\ results' = <<>>
  /\ grading_history' = <<>>
  /\ pc' = "idle"
  /\ assignment_id' = ""
  /\ pending' = <<>>
  /\ notebook_files' = <<>>
  /\ all_results' = NoFiles
  /\ dir_raised' = {}
  /\ last' = NoCall
  /\ UNCHANGED <<llm, loaded_rubrics, rubric_files>>

Init ==
  /\ AgentInit
  /\ p_in = [completion |-> MalformedCompletion,
             rubric |-> [problem_id |-> "part_1", total_points |-> 1, criteria |-> <<"c1">>]]
  /\ p_out = <<>>

Next ==
  \/ GradeNotebook /\ UNCHANGED parse_vars
  \/ GradeDirectoryBegin /\ UNCHANGED parse_vars
  \/ GradeDirectoryStep /\ UNCHANGED parse_vars
  \/ GradeDirectoryReturn /\ UNCHANGED parse_vars
  \/ clear_results /\ UNCHANGED parse_vars

Spec == Init /\ [][Next]_vars

\* -------------------------------------------- the parser as a state machine
ParseInit ==
  /\ p_in \in [completion : Completions, rubric : ParseRubrics]
  /\ p_out = <<>>
  /\ AgentInit
  /\ llm = "MockLLM"
  /\ rubric_files = {}

\* one call of _parse_llm_response on the input
ParseCall ==
  /\ Len(p_out) < MaxCalls
  /\ p_out' = Append(p_out, parse_llm_response(p_in.completion, ParseResponse, p_in.rubric))
  /\ UNCHANGED p_in
  /\ UNCHANGED agent_vars

ParseNext == ParseCall

SpecParse == ParseInit /\ [][ParseNext]_vars

\* ----------------------------------------------------------------------
\* Claims about the completion parser, checked under SpecParse
\* ----------------------------------------------------------------------
HasToken(s, tok) == \E i \in 1..Len(s) : s[i] = tok

\* the text from its first "{" to its last "}", <<>> when there is none
BracedPart(s) ==
  IF \E a, b \in 1..Len(s) :
       /\ s[a] = "{" /\ \A j \in 1..(a - 1) : s[j] # "{"
       /\ s[b] = "}" /\ \A j \in (b + 1)..Len(s) : s[j] # "}"
       /\ a < b
  THEN LET a == CHOOSE i \in 1..Len(s) : s[i] = "{" /\ \A j \in 1..(i - 1) : s[j] # "{"
           b == CHOOSE i \in 1..Len(s) : s[i] = "}" /\ \A j \in (i + 1)..Len(s) : s[j] # "}"
       IN [i \in 1..(b - a + 1) |-> s[a + i - 1]]
  ELSE <<>>

\* no "{", no "}", or no JSON object between them
Malformed(s) == BracedPart(s) \notin {<<"{", "}">>, ObjectText}

\* the object a well-formed completion carries
ObjectOf(c) == IF BracedPart(c.text) = ObjectText THEN c.payload ELSE EmptyPayload

\* every value has the type the prompt's schema asks for
WellFormed(c) ==
  /\ ~Malformed(c.text)
  /\ ObjectOf(c).scores.t \in {"absent", "map"}
  /\ ObjectOf(c).total_score.t \in {"absent", "num"}
  /\ ObjectOf(c).confidence.t \in {"absent", "num"}

ScoreOf(m, c) == IF c \in DOMAIN m THEN m[c] ELSE 0
ClaimedSum(o) == ScoreOf(o.scores.m, "c1") + ScoreOf(o.scores.m, "c2")
ClaimedTotal(o) == IF o.total_score.t = "absent" THEN ClaimedSum(o) ELSE o.total_score.n
ClaimedConfidence(o) == IF o.confidence.t = "absent" THEN 50 ELSE o.confidence.n

IsFallback(r, rubric) ==
  /\ DOMAIN r.scores = {rubric.criteria[i] : i \in 1..Len(rubric.criteria)}
  /\ \A c \in DOMAIN r.scores : r.scores[c] = 0
  /\ r.total_score = 0
  /\ r.percentage = [t |-> "num", n |-> 0, d |-> 1]
  /\ r.confidence = 0
  /\ Len(r.suggestions) = 1
  /\ r.flagged_for_review
  /\ r.max_possible = rubric.total_points

\* C1: the completion parser never raises: every call returns a
\* GradingResult, whatever the completion text and the rubric.
C1_NeverRaises == \A i \in 1..Len(p_out) : p_out[i].exc = ""

\* C2: a malformed completion (no "{", no "}", invalid JSON) gives the
\* fallback result: every criterion of the rubric at 0, total 0, percentage
\* 0, confidence 0.0, one suggestion, flagged, max_possible the rubric's
\* total_points; two parses of it give results equal in all these fields.
C2_MalformedGivesFallback ==
  Malformed(p_in.completion.text) =>
    /\ \A i \in 1..Len(p_out) :
         p_out[i].exc = "" /\ IsFallback(p_out[i].result, p_in.rubric)
    /\ \A i, j \in 1..Len(p_out) :
         /\ p_out[i].result.scores = p_out[j].result.scores
         /\ p_out[i].result.total_score = p_out[j].result.total_score
         /\ p_out[i].result.percentage = p_out[j].result.percentage
         /\ p_out[i].result.confidence = p_out[j].result.confidence
         /\ p_out[i].result.suggestions = p_out[j].result.suggestions
         /\ p_out[i].result.flagged_for_review = p_out[j].result.flagged_for_review
         /\ p_out[i].result.max_possible = p_out[j].result.max_possible

\* an invalid JSON between braces, parsed twice
C2_Witness ==
  /\ Len(p_out) = 2
  /\ HasToken(p_in.completion.text, "{")
  /\ HasToken(p_in.completion.text, "}")
  /\ Malformed(p_in.completion.text)
  /\ IsFallback(p_out[2].result, p_in.rubric)
  /\ Len(p_in.rubric.criteria) = 2

\* C3: for a well-formed completion whose total_score is within the
\* rubric's total_points, the result is flagged iff the confidence (0.5
\* when absent) is strictly below 0.7.
C3_FlaggedIffLowConfidence ==
  \A i \in 1..Len(p_out) :
    (/\ WellFormed(p_in.completion)
     /\ ClaimedTotal(ObjectOf(p_in.completion)) <= p_in.rubric.total_points)
    => /\ p_out[i].exc = ""
       /\ p_out[i].result.confidence = ClaimedConfidence(ObjectOf(p_in.completion))
       /\ p_out[i].result.flagged_for_review
            <=> (ClaimedConfidence(ObjectOf(p_in.completion)) < 70)

\* confidence exactly 0.70, total within the rubric: not flagged
C3_Witness ==
  /\ Len(p_out) >= 1
  /\ WellFormed(p_in.completion)
  /\ p_in.completion.payload.confidence = Num(70)
  /\ ClaimedTotal(ObjectOf(p_in.completion)) <= p_in.rubric.total_points
  /\ ~p_out[1].result.flagged_for_review

\* C4: a well-formed completion whose total_score exceeds the rubric's
\* total_points gives a flagged result whatever its confidence, and the
\* result keeps the total_score as given.
C4_OverrunIsFlagged ==
  \A i \in 1..Len(p_out) :
    (/\ WellFormed(p_in.completion)
     /\ ClaimedTotal(ObjectOf(p_in.completion)) > p_in.rubric.total_points)
    => /\ p_out[i].exc = ""
       /\ p_out[i].result.flagged_for_review
       /\ p_out[i].result.total_score = ClaimedTotal(ObjectOf(p_in.completion))
       /\ p_out[i].result.total_score > p_out[i].result.max_possible

\* a high confidence and a stated total above the rubric's
C4_Witness ==
  /\ Len(p_out) >= 1
  /\ WellFormed(p_in.completion)
  /\ p_in.completion.payload.confidence = Num(150)
  /\ p_in.completion.payload.total_score = Num(MaxTotal)
  /\ p_in.rubric.total_points < MaxTotal
  /\ p_out[1].result.flagged_for_review
  /\ p_out[1].result.total_score = MaxTotal

\* C5: a well-formed completion without total_score gets the sum of its
\* scores (0 without scores); a stated total_score is used as it is, also
\* when it differs from the sum.
C5_TotalIsGivenOrSum ==
  \A i \in 1..Len(p_out) :
    WellFormed(p_in.completion) =>
      /\ p_out[i].exc = ""
      /\ ObjectOf(p_in.completion).total_score.t = "absent"
           => p_out[i].result.total_score = ClaimedSum(ObjectOf(p_in.completion))
      /\ ObjectOf(p_in.completion).total_score.t = "num"
           => p_out[i].result.total_score = ObjectOf(p_in.completion).total_score.n

\* no total_score, two scores with the sum 3
C5_Witness ==
  /\ Len(p_out) >= 1
  /\ WellFormed(p_in.completion)
  /\ p_in.completion.payload.total_score.t = "absent"
  /\ p_in.completion.payload.scores.t = "map"
  /\ DOMAIN p_in.completion.payload.scores.m = {"c1", "c2"}
  /\ p_in.completion.payload.scores.m["c1"] = 2
  /\ p_in.completion.payload.scores.m["c2"] = 1
  /\ p_out[1].result.total_score = 3

\* C25 as stated: every GradingResult the parser returns has max_possible
\* equal to the rubric's total_points and percentage equal to
\* total_score / max_possible * 100.
C25_PercentageIsComputed ==
  \A i \in 1..Len(p_out) :
    p_out[i].exc = "" =>
      /\ p_out[i].result.max_possible = p_in.rubric.total_points
      /\ p_out[i].result.percentage.t = "num"
      /\ p_out[i].result.percentage.n * p_out[i].result.max_possible
           = p_out[i].result.total_score * 100 * p_out[i].result.percentage.d

\* C25 amended: every GradingResult the parser returns has max_possible
\* equal to the rubric's total_points; its percentage is the completion's
\* percentage, unchanged, when the completion was parsed and carries one,
\* and total_score / max_possible * 100 otherwise, the fallback result
\* included.
C25_PercentageIsGivenOrComputed ==
  \A i \in 1..Len(p_out) :
    p_out[i].exc = "" =>
      LET r == p_out[i].result
          given == ObjectOf(p_in.completion).percentage
          parsed == WellFormed(p_in.completion) /\ r.suggestions # ReviewSuggestion
      IN  /\ r.max_possible = p_in.rubric.total_points
          /\ (parsed /\ given.t # "absent")
               => /\ r.percentage.t = given.t
                  /\ given.t = "num" => (r.percentage.n = given.n /\ r.percentage.d = 1)
          /\ ~(parsed /\ given.t # "absent")
               => /\ r.percentage.t = "num"
                  /\ r.percentage.n * r.max_possible = r.total_score * 100 * r.percentage.d

\* a parsed completion that states total_score 1 and percentage 50 under a
\* rubric of 3 points: the result keeps 50
C25_Witness ==
  /\ Len(p_out) >= 1
  /\ WellFormed(p_in.completion)
  /\ p_in.completion.payload.total_score = Num(1)
  /\ p_in.completion.payload.percentage = Num(50)
  /\ p_in.rubric.total_points = 3
  /\ p_out[1].exc = ""
  /\ p_out[1].result.total_score = 1
  /\ p_out[1].result.percentage = [t |-> "num", n |-> 50, d |-> 1]

\* C26: every GradingResult the parser returns has a confidence within
\* [0, 1] (0..100 in hundredths), whatever the completion carried.
C26_ConfidenceInUnitInterval ==
  \A i \in 1..Len(p_out) :
    p_out[i].exc = "" =>
      (p_out[i].result.confidence >= 0 /\ p_out[i].result.confidence <= 100)

\* ----------------------------------------------------------------------
\* Claims about the grading coordinator, checked under Spec
\* ----------------------------------------------------------------------
\* the responses of the last graded notebook that have a rubric
RubricResponses ==
  SelectSeq(last.nb.responses, LAMBDA r : r.problem_id \in TxtRubricProblems)

\* the last call parsed its notebook and loaded the rubric
LastParsed == last.called /\ last.nb.ok /\ last.io_ok

\* the fallback result of a response of the assignment rubric
AgentFallback(r, problem_id) ==
  /\ r.problem_id = problem_id
  /\ DOMAIN r.scores = {"content_quality", "implementation", "presentation"}
  /\ \A c \in DOMAIN r.scores : r.scores[c] = 0
  /\ r.total_score = 0
  /\ r.max_possible = 30
  /\ r.percentage = [t |-> "num", n |-> 0, d |-> 1]
  /\ r.confidence = 0
  /\ Len(r.suggestions) = 1
  /\ r.flagged_for_review

\* C6: grade_response never propagates an exception: when the model's
\* generate_response raises, the call returns one fallback result for that
\* response and the notebook's next response is graded.
C6_RaiseGivesFallback ==
  last.called =>
    /\ last.exc \in {"", "ParseError", "OSError", "ValueError"}
    /\ LastParsed =>
         \/ last.exc = "" /\ Len(last.graded) = Len(RubricResponses)
         \/ /\ last.exc = "ValueError"
            /\ Len(last.graded) \in 1..Len(RubricResponses)
            /\ last.graded[Len(last.graded)].percentage.t # "num"
    /\ \A k \in 1..Len(last.graded) :
         (llm = "custom" /\ RubricResponses[k].api = "fail")
           => AgentFallback(last.graded[k], RubricResponses[k].problem_id)

\* the model raises on the first response, the second one is graded
C6_Witness ==
  /\ llm = "custom"
  /\ last.called
  /\ last.exc = ""
  /\ Len(last.graded) = 2
  /\ RubricResponses[1].api = "fail"
  /\ AgentFallback(last.graded[1], "part_1")
  /\ RubricResponses[2].api = "good"
  /\ last.graded[2].total_score = 24
  /\ last.returned = last.graded

\* C7 as stated: whenever the backend's call errors, a vendor backend
\* included, the response gets the fallback result.
C7_BackendErrorGivesFallback ==
  last.called =>
    \A k \in 1..Len(last.graded) :
      RubricResponses[k].api = "fail"
        => AgentFallback(last.graded[k], RubricResponses[k].problem_id)

\* C7 amended: a generate_response that raises gives the fallback result;
\* OpenAIGPT and AnthropicClaude do not raise when their API call fails,
\* they return the mock's completion, which is graded as any completion:
\* total 24, percentage 80, confidence 0.85, not flagged.
C7_VendorErrorGivesMockGrade ==
  last.called =>
    \A k \in 1..Len(last.graded) :
      RubricResponses[k].api = "fail" =>
        /\ llm = "custom"
             => AgentFallback(last.graded[k], RubricResponses[k].problem_id)
        /\ llm \in {"OpenAIGPT", "AnthropicClaude"}
             => /\ last.graded[k].problem_id = RubricResponses[k].problem_id
                /\ last.graded[k].total_score = 24
                /\ last.graded[k].max_possible = 30
                /\ last.graded[k].percentage = [t |-> "num", n |-> 80, d |-> 1]
                /\ last.graded[k].confidence = 85
                /\ ~last.graded[k].flagged_for_review
                /\ DOMAIN last.graded[k].scores =
                     {"insight_quality", "code_quality", "visualization"}

\* a vendor backend whose API call failed: an unflagged 24/30
C7_Witness ==
  /\ llm \in {"OpenAIGPT", "AnthropicClaude"}
  /\ last.called
  /\ Len(last.returned) = 1
  /\ RubricResponses[1].api = "fail"
  /\ last.returned[1].total_score = 24
  /\ ~last.returned[1].flagged_for_review

\* C8: once the notebook is parsed (and its rubric loaded), every response
\* that has a rubric gets a result row, flagged when grading it failed (the
\* model raised, or its completion is malformed or cannot be evaluated): no
\* row is missing.
C8_FailureGivesFlaggedRow ==
  LastParsed =>
    /\ Len(last.returned) = Len(RubricResponses)
    /\ \A k \in 1..Len(last.returned) :
         (\/ RubricResponses[k].api \in {"malformed", "list_scores"}
          \/ RubricResponses[k].api = "fail" /\ llm = "custom")
           => last.returned[k].flagged_for_review

\* C9: in a directory pass a notebook whose grading raises gets an empty
\* placeholder, every other notebook is graded, and the pass returns one
\* entry per notebook file.
C9_OneEntryPerNotebook ==
  /\ pc \in {"dir", "returned"} =>
       /\ DOMAIN all_results \cup {pending[i] : i \in 1..Len(pending)}
            = {notebook_files[i] : i \in 1..Len(notebook_files)}
       /\ DOMAIN all_results \cap {pending[i] : i \in 1..Len(pending)} = {}
       /\ dir_raised \subseteq DOMAIN all_results
       /\ \A f \in dir_raised : all_results[f] = <<>>
       /\ last.called =>
            /\ last.file \in DOMAIN all_results
            /\ last.exc # "" <=> last.file \in dir_raised
            /\ last.exc = "" => all_results[last.file] = last.returned
  /\ pc = "returned" =>
       DOMAIN all_results = {notebook_files[i] : i \in 1..Len(notebook_files)}

\* the first notebook of the pass raised, the second one has its results
C9_Witness ==
  /\ pc = "returned"
  /\ Len(notebook_files) = 2
  /\ notebook_files[1] \in dir_raised
  /\ all_results[notebook_files[1]] = <<>>
  /\ Len(all_results[notebook_files[2]]) = 1
  /\ results = all_results[notebook_files[2]]

\* C10: in grade_notebook a response without a rubric gets no result and
\* every response with a rubric gets its result, in response order.
C10_OnlyMissingRubricSkipped ==
  (LastParsed /\ \E i \in 1..Len(last.nb.responses) :
                   last.nb.responses[i].problem_id \notin TxtRubricProblems) =>
    /\ Len(last.returned) = Len(RubricResponses)
    /\ \A k \in 1..Len(last.returned) :
         /\ last.returned[k].problem_id = RubricResponses[k].problem_id
         /\ last.returned[k] = last.graded[k]

\* the step is one grade_notebook call, direct or from grade_directory's loop
GradeStep == last'.called /\ (pc' = "idle" \/ pending' # pending)

\* the step is a clear_results call
ClearStep == ~last'.called /\ assignment_id' = ""

\* C27: the results list is append-only between clears: a grade_notebook
\* call, direct or from grade_directory, extends it at its end by exactly
\* the list the call returned and keeps every earlier entry in place,
\* clear_results leaves results and grading_history empty, and no other
\* step changes the list.
C27_AppendOnlyBetweenClears ==
  [][IF GradeStep THEN results' = results \o last'.returned
     ELSE IF ClearStep THEN results' = <<>> /\ grading_history' = <<>>
     ELSE results' = results]_vars

\* two calls have returned one result each: results is the first call's
\* list followed by the last call's
C27_Witness ==
  /\ last.called
  /\ last.exc = ""
  /\ Len(last.returned) = 1
  /\ Len(results) = 2
  /\ results[2] = last.returned[1]
  /\ results[1] # results[2]

\* C30: grade_notebook is all-or-nothing on the results list: when the call
\* raises (the notebook does not parse, the rubric does not load, or the
\* handling of a response raises) results is what it was before the call,
\* and grade_directory records the empty list for that notebook.
C30_RaiseKeepsResults ==
  [][(GradeStep /\ last'.exc # "") =>
       /\ results' = results
       /\ pc' = "dir" => /\ last'.file \in DOMAIN all_results'
                         /\ all_results'[last'.file] = <<>>]_vars

\* in a directory pass, a notebook whose first response was graded and whose
\* second response raised: its entry is empty and results holds none of it
C30_Witness ==
  /\ pc = "dir"
  /\ last.called
  /\ last.exc = "ValueError"
  /\ Len(last.graded) = 2
  /\ last.returned = <<>>
  /\ all_results[last.file] = <<>>
  /\ \A k \in 1..Len(results) : results[k].student_id # last.graded[1].student_id

\* ----------------------------------------------------------------------
\* NotebookParser (src/notebook_parser.py): the cell classifier
\* ----------------------------------------------------------------------
MaxLines == 3      \* lines of one cell source

\* A source is its sequence of lines; a line is one of
\*   "blank"    whitespace only              "comment"  "# todo"
\*   "code"     "print(1+1)"                 "answer"   "Answer: yes"
\*   "part1"    "## Part 1: X"               "part2"    "## Part 2: Y"
\*   "problem1" "## Problem 1: Z"            "long"     60 characters of prose
LineKinds == {"blank", "comment", "code", "part1", "part2", "problem1", "answer", "long"}

\* len(line)
LineLen(l) ==
  CASE l = "blank" -> 0
    [] l = "comment" -> 6
    [] l = "code" -> 10
    [] l = "part1" -> 12
    [] l = "part2" -> 12
    [] l = "problem1" -> 15
    [] l = "answer" -> 11
    [] OTHER -> 60

\* line.strip().startswith('#')
StartsWithHash(l) == l \in {"comment", "part1", "part2", "problem1"}

\* the line holds one of problem_indicators: here '##', at its start
HasProblemIndicator(l) == l \in {"part1", "part2", "problem1"}

\* the lowercased line holds one of answer_indicators: here 'answer:'
HasAnswerIndicator(l) == l = "answer"

\* cell['source'].strip(), as lines: the blank lines at both ends go
RECURSIVE StripLeft(_)
StripLeft(s) == IF s # <<>> /\ Head(s) = "blank" THEN StripLeft(Tail(s)) ELSE s
RECURSIVE StripRight(_)
StripRight(s) ==
  IF s # <<>> /\ s[Len(s)] = "blank" THEN StripRight(SubSeq(s, 1, Len(s) - 1)) ELSE s
Strip(s) == StripRight(StripLeft(s))

\* the 0-based offset of line i in the content: the lines before it and
\* their newlines
RECURSIVE LineOffset(_, _)
LineOffset(content, i) ==
  IF i = 1 THEN 0 ELSE LineOffset(content, i - 1) + LineLen(content[i - 1]) + 1

\* len(content)
ContentLen(content) ==
  IF content = <<>> THEN 0
  ELSE LineOffset(content, Len(content)) + LineLen(content[Len(content)])

AnswerTags == {"code answer", "text answer"}

\* mutant: the tags are looked at after the empty-content test
is_answer_cell_content_first(cell) ==
  LET content == Strip(cell.source) IN
  IF content = <<>> THEN FALSE
  ELSE IF cell.tags \cap AnswerTags # {} THEN TRUE
  ELSE IF cell.cell_type = "code"
  THEN \E i \in 1..Len(content) : content[i] # "blank" /\ ~StartsWithHash(content[i])
  ELSE TRUE

\* mutant: any non-blank line makes a code cell an answer
is_answer_cell_counts_comments(cell) ==
  LET content == Strip(cell.source) IN
  IF cell.tags \cap AnswerTags # {} THEN TRUE
  ELSE IF content = <<>> THEN FALSE
  ELSE IF cell.cell_type = "code"
  THEN \E i \in 1..Len(content) : content[i] # "blank"
  ELSE TRUE

\* mutant: the problem-statement filter does not count the lines
is_answer_cell_filter_any_length(cell) ==
  LET content == Strip(cell.source) IN
  IF cell.tags \cap AnswerTags # {} THEN TRUE
  ELSE IF content = <<>> THEN FALSE
  ELSE IF cell.cell_type = "code"
  THEN \E i \in 1..Len(content) : content[i] # "blank" /\ ~StartsWithHash(content[i])
  ELSE IF cell.cell_type = "markdown"
  THEN
    IF \E i \in 1..Len(content) :
         HasProblemIndicator(content[i]) /\ LineOffset(content, i) + 2 <= 100
    THEN FALSE
    ELSE IF \E i \in 1..Len(content) : HasAnswerIndicator(content[i]) THEN TRUE
    ELSE ContentLen(content) > 50
  ELSE TRUE

\* NotebookParser._is_answer_cell
is_answer_cell(cell) ==
  LET content == Strip(cell.source) IN
  IF cell.tags \cap AnswerTags # {} THEN TRUE
  ELSE IF content = <<>> THEN FALSE
  ELSE IF cell.cell_type = "code"
  THEN \E i \in 1..Len(content) : content[i] # "blank" /\ ~StartsWithHash(content[i])
  ELSE IF cell.cell_type = "markdown"
  THEN
    IF /\ \E i \in 1..Len(content) : HasProblemIndicator(content[i])
       /\ Len(content) <= 5
       /\ \E i \in 1..Len(content) :
            HasProblemIndicator(content[i]) /\ LineOffset(content, i) + 2 <= 100
    THEN FALSE
    ELSE IF \E i \in 1..Len(content) : HasAnswerIndicator(content[i]) THEN TRUE
    ELSE ContentLen(content) > 50
  ELSE TRUE

\* ------------------------------------------------- inputs of the classifier
CellTypes == {"code", "markdown", "raw"}
Tags == {"code answer", "text answer", "task"}
Sources == UNION {[1..k -> LineKinds] : k \in 0..MaxLines}
Cells ==
  {[cell_type |-> ct, tags |-> tg, source |-> src, outputs |-> <<>>] :
     ct \in CellTypes, tg \in SUBSET Tags, src \in Sources}

CellInit ==
  /\ p_in \in Cells
  /\ p_out = <<>>
  /\ AgentInit
  /\ llm = "MockLLM"
  /\ rubric_files = {}

\* one call of _is_answer_cell on the cell
IsAnswerCellCall ==
  /\ Len(p_out) < MaxCalls
  /\ p_out' = Append(p_out, is_answer_cell(p_in))
  /\ UNCHANGED p_in
  /\ UNCHANGED agent_vars

CellNext == IsAnswerCellCall

SpecCell == CellInit /\ [][CellNext]_vars

\* C11: a cell that carries a recognized answer tag ('code answer' or
\* 'text answer') is an answer cell, whatever its kind and its source.
C11_TaggedIsAnswer ==
  \A i \in 1..Len(p_out) : (p_in.tags \cap AnswerTags # {}) => p_out[i] = TRUE

\* a tagged code cell that holds only a comment, classified as an answer
C11_Witness ==
  /\ Len(p_out) >= 1
  /\ p_in.cell_type = "code"
  /\ "code answer" \in p_in.tags
  /\ p_in.source = <<"comment">>
  /\ p_out[1] = TRUE

\* the non-blank lines of the source are all comments
OnlyComments(src) == \A i \in 1..Len(src) : src[i] = "blank" \/ StartsWithHash(src[i])

\* C12 as stated: every code cell whose only non-blank lines are comments
\* is not an answer cell.
C12_CommentOnlyIsNotAnswer ==
  \A i \in 1..Len(p_out) :
    (p_in.cell_type = "code" /\ OnlyComments(p_in.source)) => p_out[i] = FALSE

\* C12 amended: every code cell without a recognized answer tag whose only
\* non-blank lines are comments is not an answer cell; with such a tag it is
\* one.
C12_UntaggedCommentOnlyIsNotAnswer ==
  \A i \in 1..Len(p_out) :
    (p_in.cell_type = "code" /\ OnlyComments(p_in.source))
      => (p_out[i] = TRUE <=> p_in.tags \cap AnswerTags # {})

\* an untagged code cell of a comment, a blank line and a heading-like
\* comment, classified as no answer
C12_Witness ==
  /\ Len(p_out) >= 1
  /\ p_in.cell_type = "code"
  /\ p_in.tags \cap AnswerTags = {}
  /\ p_in.source = <<"comment", "blank", "part1">>
  /\ p_out[1] = FALSE

\* ----------------------------------------------------------------------
\* NotebookParser: problem boundaries and the responses of a notebook
\* ----------------------------------------------------------------------
MaxCells == 3      \* cells of one notebook

\* re.search of problem_patterns in a markdown source, the Part pattern
\* first, then the Problem pattern; the number of the leftmost match of the
\* first pattern that matches, 0 when none matches
ProblemMatch(source) ==
  LET parts == SelectSeq(source, LAMBDA l : l \in {"part1", "part2"})
      problems == SelectSeq(source, LAMBDA l : l = "problem1")
  IN IF parts # <<>> THEN (IF Head(parts) = "part1" THEN 1 ELSE 2)
     ELSE IF problems # <<>> THEN 1
     ELSE 0

\* mutant: the id falls back to problem_<cell_index>
generate_problem_id_fallback(number) == "problem_0"

\* NotebookParser._generate_problem_id: the first group is the digits
generate_problem_id(number) == IF number = 1 THEN "part_1" ELSE "part_2"

\* NotebookParser._identify_problems: cell_index is 0-based
identify_problems(cells) ==
  LET idx == SelectSeq([i \in 1..Len(cells) |-> i],
                       LAMBDA i : cells[i].cell_type = "markdown"
                                    /\ ProblemMatch(cells[i].source) # 0)
  IN [k \in 1..Len(idx) |->
        [cell_index |-> idx[k] - 1,
         problem_id |-> generate_problem_id(ProblemMatch(cells[idx[k]].source))]]

\* The output entries of a code cell, by kind: output_type, whether the entry
\* has the key 'text' and whether its text is blank, whether it has the key
\* 'data' and the representations data holds.  A stream has text; an error
\* has neither text nor data; an execute_result and a display_data have data.
OutputOf(kind) ==
  CASE kind = "stream" ->
         [output_type |-> "stream", has_text |-> TRUE, blank |-> FALSE,
          has_data |-> FALSE, data |-> {}]
    [] kind = "stream_blank" ->
         [output_type |-> "stream", has_text |-> TRUE, blank |-> TRUE,
          has_data |-> FALSE, data |-> {}]
    [] kind = "error" ->
         [output_type |-> "error", has_text |-> FALSE, blank |-> FALSE,
          has_data |-> FALSE, data |-> {}]
    [] kind = "execute_result" ->
         [output_type |-> "execute_result", has_text |-> FALSE, blank |-> FALSE,
          has_data |-> TRUE, data |-> {"text/plain"}]
    [] kind = "execute_result_html" ->
         [output_type |-> "execute_result", has_text |-> FALSE, blank |-> FALSE,
          has_data |-> TRUE, data |-> {"text/plain", "text/html"}]
    [] kind = "execute_result_no_data" ->
         [output_type |-> "execute_result", has_text |-> FALSE, blank |-> FALSE,
          has_data |-> FALSE, data |-> {}]
    [] kind = "display_data" ->
         [output_type |-> "display_data", has_text |-> FALSE, blank |-> FALSE,
          has_data |-> TRUE, data |-> {"text/plain", "image/png"}]
    [] kind = "display_svg" ->
         [output_type |-> "display_data", has_text |-> FALSE, blank |-> FALSE,
          has_data |-> TRUE, data |-> {"image/svg+xml"}]

\* the blocks one output entry appends to output_components, i its 1-based
\* position: the if / elif / elif chain of the loop body.  The text/plain
\* representations of the model are not blank.
output_blocks(output, i) ==
  IF output.has_text
  THEN IF output.blank THEN <<>> ELSE <<[label |-> "TEXT OUTPUT", number |-> i]>>
  ELSE IF output.has_data
  THEN (IF "text/plain" \in output.data
        THEN <<[label |-> "PLAIN TEXT OUTPUT", number |-> i]>> ELSE <<>>)
       \o (IF output.data \cap {"image/png", "image/jpeg", "image/svg+xml"} # {}
           THEN <<[label |-> "IMAGE OUTPUT", number |-> i]>> ELSE <<>>)
       \o (IF "text/html" \in output.data
           THEN <<[label |-> "HTML OUTPUT", number |-> i]>> ELSE <<>>)
  ELSE IF output.output_type = "execute_result" /\ output.has_data
  THEN IF "text/plain" \in output.data
       THEN <<[label |-> "EXECUTION RESULT", number |-> i]>> ELSE <<>>
  ELSE <<>>

\* NotebookParser._get_execution_output: the blocks of the outputs of a code
\* cell in order, each with the 1-based number of its output (<<>> stands
\* for None)
get_execution_output(cell) ==
  IF cell.cell_type # "code" THEN <<>>
  ELSE LET RECURSIVE Components(_)
           Components(i) ==
             IF i > Len(cell.outputs) THEN <<>>
             ELSE output_blocks(OutputOf(cell.outputs[i]), i) \o Components(i + 1)
       IN  Components(1)

\* NotebookParser._check_for_errors
check_for_errors(cell) ==
  /\ cell.cell_type = "code"
  /\ \E i \in 1..Len(cell.outputs) : OutputOf(cell.outputs[i]).output_type = "error"

\* mutant: a tie of the two counts gives code
CombinedResponse_ties_to_code(cells, a, problem_id) ==
  LET code_count == Len(SelectSeq(a, LAMBDA i : cells[i + 1].cell_type = "code"))
      markdown_count == Len(SelectSeq(a, LAMBDA i : cells[i + 1].cell_type = "markdown"))
      with_output == SelectSeq(a, LAMBDA i : get_execution_output(cells[i + 1]) # <<>>)
  IN [problem_id |-> problem_id,
      content |-> [k \in 1..Len(a) |->
                     [indicator |-> cells[a[k] + 1].cell_type,
                      source |-> cells[a[k] + 1].source]],
      cell_type |-> IF code_count > 0 /\ markdown_count > 0 THEN "mixed"
                    ELSE IF code_count >= markdown_count THEN "code"
                    ELSE "markdown",
      cell_index |-> a[1],
      execution_output |-> [k \in 1..Len(with_output) |->
                              [cell |-> with_output[k],
                               output |-> get_execution_output(cells[with_output[k] + 1])]],
      has_errors |-> \E k \in 1..Len(a) : check_for_errors(cells[a[k] + 1])]

\* The StudentResponse of the answer cells at the 0-based indices a of the
\* cells, a not empty
CombinedResponse(cells, a, problem_id) ==
  LET code_count == Len(SelectSeq(a, LAMBDA i : cells[i + 1].cell_type = "code"))
      markdown_count == Len(SelectSeq(a, LAMBDA i : cells[i + 1].cell_type = "markdown"))
      with_output == SelectSeq(a, LAMBDA i : get_execution_output(cells[i + 1]) # <<>>)
  IN [problem_id |-> problem_id,
      content |-> [k \in 1..Len(a) |->
                     [indicator |-> cells[a[k] + 1].cell_type,
                      source |-> cells[a[k] + 1].source]],
      cell_type |-> IF code_count > 0 /\ markdown_count > 0 THEN "mixed"
                    ELSE IF code_count > markdown_count THEN "code"
                    ELSE "markdown",
      cell_index |-> a[1],
      execution_output |-> [k \in 1..Len(with_output) |->
                              [cell |-> with_output[k],
                               output |-> get_execution_output(cells[with_output[k] + 1])]],
      has_errors |-> \E k \in 1..Len(a) : check_for_errors(cells[a[k] + 1])]

\* mutant: the range starts at the heading cell
get_combined_response_from_heading(cells, start, end, problem_id) ==
  LET a == SelectSeq([k \in 1..(IF end > start - 1 THEN end - start + 1 ELSE 0) |->
                        start - 2 + k],
                     LAMBDA i : i < Len(cells) /\ is_answer_cell(cells[i + 1]))
  IN IF a = <<>> THEN <<>> ELSE <<CombinedResponse(cells, a, problem_id)>>

\* NotebookParser._get_combined_response_in_range over range(start, end):
\* <<>> stands for None, <<r>> for the response r
get_combined_response_in_range(cells, start, end, problem_id) ==
  LET a == SelectSeq([k \in 1..(IF end > start THEN end - start ELSE 0) |-> start - 1 + k],
                     LAMBDA i : i < Len(cells) /\ is_answer_cell(cells[i + 1]))
  IN IF a = <<>> THEN <<>> ELSE <<CombinedResponse(cells, a, problem_id)>>

\* mutant: every problem section runs to the end of the notebook
RECURSIVE ResponsesFrom_to_end(_, _, _)
ResponsesFrom_to_end(cells, problems, i) ==
  IF i > Len(problems) THEN <<>>
  ELSE get_combined_response_in_range(cells, problems[i].cell_index + 1, Len(cells),
                                      problems[i].problem_id)
         \o ResponsesFrom_to_end(cells, problems, i + 1)

\* the loop of _extract_responses from problem i on
RECURSIVE ResponsesFrom(_, _, _)
ResponsesFrom(cells, problems, i) ==
  IF i > Len(problems) THEN <<>>
  ELSE
    LET problem_start == problems[i].cell_index
        problem_end == IF i + 1 <= Len(problems) THEN problems[i + 1].cell_index
                       ELSE Len(cells)
    IN get_combined_response_in_range(cells, problem_start + 1, problem_end,
                                      problems[i].problem_id)
         \o ResponsesFrom(cells, problems, i + 1)

\* mutant: a notebook without problems is taken as one problem
extract_responses_whole_notebook(cells, problems) ==
  IF problems = <<>>
  THEN get_combined_response_in_range(cells, 0, Len(cells), "problem_0")
  ELSE ResponsesFrom(cells, problems, 1)

\* NotebookParser._extract_responses
extract_responses(cells, problems) == ResponsesFrom(cells, problems, 1)

\* ---------------------------------------------------- inputs of the parser
\* the cells of the notebooks: headings, answers of both kinds, tagged and
\* not, cells that are no answer, a heading that carries an answer tag, a
\* raw cell
NotebookCells ==
  {[cell_type |-> "markdown", tags |-> {}, source |-> <<l>>, outputs |-> <<>>] :
     l \in {"part1", "part2", "problem1", "long"}}
  \cup {[cell_type |-> "code", tags |-> tg, source |-> <<l>>, outputs |-> o] :
          tg \in {{}, {"code answer"}}, l \in {"code", "comment"},
          o \in {<<>>, <<"stream">>}}
  \cup {[cell_type |-> "code", tags |-> {}, source |-> <<"code">>, outputs |-> <<"error">>],
        [cell_type |-> "markdown", tags |-> {"text answer"}, source |-> <<>>,
         outputs |-> <<>>],
        [cell_type |-> "markdown", tags |-> {"text answer"}, source |-> <<"part1">>,
         outputs |-> <<>>],
        [cell_type |-> "raw", tags |-> {}, source |-> <<"code">>, outputs |-> <<>>]}

Notebooks == UNION {[1..k -> NotebookCells] : k \in 0..MaxCells}

NotebookInit ==
  /\ p_in \in Notebooks
  /\ p_out = <<>>
  /\ AgentInit
  /\ llm = "MockLLM"
  /\ rubric_files = {}

\* parse_notebook on the cells read from the file: the problems and the
\* responses of its result
ParseNotebookCall ==
  /\ Len(p_out) < MaxCalls
  /\ \E problems \in {identify_problems(p_in)} :
       p_out' = Append(p_out, [problems |-> problems,
                               responses |-> extract_responses(p_in, problems)])
  /\ UNCHANGED p_in
  /\ UNCHANGED agent_vars

NotebookNext == ParseNotebookCall

SpecNotebook == NotebookInit /\ [][NotebookNext]_vars

\* C13: a notebook in which no problem boundary is detected has no
\* response, whatever answer cells it holds.
C13_NoBoundaryNoResponse ==
  \A i \in 1..Len(p_out) : p_out[i].problems = <<>> => p_out[i].responses = <<>>

\* a notebook of a tagged code answer and a long markdown answer, no heading
C13_Witness ==
  /\ Len(p_out) >= 1
  /\ Len(p_in) = 2
  /\ p_in[1].cell_type = "code" /\ "code answer" \in p_in[1].tags
  /\ p_in[2].cell_type = "markdown" /\ is_answer_cell(p_in[2])
  /\ p_out[1].problems = <<>>
  /\ p_out[1].responses = <<>>

\* the 0-based indices of the span of boundary k of the problems
SpanOf(problems, k) ==
  {j \in 0..(Len(p_in) - 1) :
     /\ j > problems[k].cell_index
     /\ k < Len(problems) => j < problems[k + 1].cell_index}

C24_DominantKind ==
  \A i \in 1..Len(p_out) :
    LET problems == p_out[i].problems
        responses == p_out[i].responses
        answered == SelectSeq([k \in 1..Len(problems) |-> k],
                              LAMBDA k : \E j \in SpanOf(problems, k) :
                                           is_answer_cell(p_in[j + 1]))
        count(m, kind) ==
          Cardinality({j \in SpanOf(problems, answered[m]) :
                         is_answer_cell(p_in[j + 1]) /\ p_in[j + 1].cell_type = kind})
    IN \A m \in 1..Len(responses) :
         /\ responses[m].cell_type = "mixed"
              <=> (count(m, "code") >= 1 /\ count(m, "markdown") >= 1)
         /\ responses[m].cell_type # "mixed"
              => responses[m].cell_type =
                   IF count(m, "code") > count(m, "markdown") THEN "code" ELSE "markdown"

\* a span whose one answer cell is a raw cell: neither count is positive,
\* and the response is of kind markdown
C24_Witness ==
  /\ Len(p_out) >= 1
  /\ Len(p_in) = 2
  /\ p_in[2].cell_type = "raw"
  /\ Len(p_out[1].responses) = 1
  /\ p_out[1].responses[1].cell_type = "markdown"

\* ----------------------------------------------------------------------
\* End to end: parse_notebook, then grade_notebook's loop over the responses
\* ----------------------------------------------------------------------
\* The loop of grade_notebook over the parsed responses, under the
\* assignment rubric (problem id -> rubric) and a model that answers each
\* prompt with the outcome api: [exc, notebook_results]
RECURSIVE GradeParsed(_, _, _, _, _)
GradeParsed(student_name, responses, assignment_rubric, api, notebook_results) ==
  IF responses = <<>> THEN [exc |-> "", notebook_results |-> notebook_results]
  ELSE IF Head(responses).problem_id \notin DOMAIN assignment_rubric
  THEN GradeParsed(student_name, Tail(responses), assignment_rubric, api, notebook_results)
  ELSE
    CHOOSE out \in
      {IF g.exc # "" THEN [exc |-> g.exc, notebook_results |-> <<>>]
       ELSE IF PrintRaises(g.result) THEN [exc |-> "ValueError", notebook_results |-> <<>>]
       ELSE GradeParsed(student_name, Tail(responses), assignment_rubric, api,
                        Append(notebook_results,
                               [g.result EXCEPT !.student_id = student_name])) :
         g \in {grade_response("custom", api, Head(responses),
                               assignment_rubric[Head(responses).problem_id])}} : TRUE

\* the rubrics of part_1 the runs grade against: one criterion, 10 or 7 points
PipelineRubrics ==
  {[problem_id |-> "part_1", total_points |-> tp, criteria |-> <<"c">>] : tp \in {10, 7}}

PipelineInit ==
  /\ p_in \in [cells : Notebooks, rubric : PipelineRubrics,
               api : {"scenario", "fail", "bad_pct"}]
  /\ p_out = <<>>
  /\ AgentInit
  /\ llm = "custom"
  /\ rubric_files = {}

\* grade_notebook on the notebook of the cells, the rubric of part_1 being
\* the assignment rubric
GradePipelineCall ==
  /\ Len(p_out) < MaxCalls
  /\ p_out' = Append(p_out,
       GradeParsed(extract_student_name("nb_a.ipynb"),
                   extract_responses(p_in.cells, identify_problems(p_in.cells)),
                   [pid \in {"part_1"} |-> p_in.rubric], p_in.api, <<>>))
  /\ UNCHANGED p_in
  /\ UNCHANGED agent_vars

PipelineNext == GradePipelineCall

SpecPipeline == PipelineInit /\ [][PipelineNext]_vars

\* the notebook of the scenario: the heading "## Part 1: X", then a code
\* cell tagged 'code answer' holding print(1+1), with a text output
ScenarioNotebook ==
  <<[cell_type |-> "markdown", tags |-> {}, source |-> <<"part1">>, outputs |-> <<>>],
    [cell_type |-> "code", tags |-> {"code answer"}, source |-> <<"code">>,
     outputs |-> <<"stream">>]>>

InScenario ==
  /\ p_in.cells = ScenarioNotebook
  /\ p_in.rubric.total_points = 10
  /\ p_in.api = "scenario"

MaxRuns == 3

\* None where a sequence is expected (no feedback and no list of
\* suggestions of the model is this sequence)
NoneValue == <<"None">>

DefaultVarianceThreshold == 15   \* .get('variance_threshold', 15)
AggregateConfThreshold == 70     \* avg_confidence < 0.7

RECURSIVE SumSeq(_)
SumSeq(s) == IF s = <<>> THEN 0 ELSE Head(s) + SumSeq(Tail(s))

RECURSIVE FlattenRuns(_)
\* the results of the runs in the order the two loops visit them; a run
\* without results contributes nothing
FlattenRuns(run_results) ==
  IF run_results = <<>> THEN <<>>
  ELSE Head(run_results) \o FlattenRuns(Tail(run_results))

\* key = f"{student_id}|{problem_id}"
group_key(student_id, problem_id) == student_id \o <<"|">> \o problem_id

\* round(p / q, 0) of Python for p >= 0, q > 0: to nearest, ties to even
round_floor(p, q) == p \div q

round_half_even(p, q) ==
  LET f == p \div q
      r == p % q
  IN  IF 2 * r < q THEN f
      ELSE IF 2 * r > q THEN f + 1
      ELSE IF f % 2 = 0 THEN f ELSE f + 1

\* statistics.stdev(scores) > threshold for integer scores and a
\* threshold >= 0, 0 > threshold for a single score: with n scores of sum
\* S and sum of squares Q, stdev^2 = (n*Q - S*S) / (n*(n-1))
high_variance_not_strict(scores, threshold) ==
  LET n == Len(scores)
      S == SumSeq(scores)
      Q == SumSeq([i \in 1..n |-> scores[i] * scores[i]])
  IN  IF n > 1 THEN n * Q - S * S >= threshold * threshold * n * (n - 1)
      ELSE 0 >= threshold

high_variance(scores, threshold) ==
  LET n == Len(scores)
      S == SumSeq(scores)
      Q == SumSeq([i \in 1..n |-> scores[i] * scores[i]])
  IN  IF n > 1 THEN n * Q - S * S > threshold * threshold * n * (n - 1)
      ELSE 0 > threshold

\* summarize_feedback on feedbacks without None: the one feedback as it is;
\* of several, the sentences longer than 20 characters (the model's
\* sentences other than "short"), each once in order of first occurrence,
\* all of them if at most 3, else the first 3 inside the summary phrase
summarize_feedback(feedbacks) ==
  IF feedbacks = <<>> THEN <<"No feedback available">>
  ELSE IF Len(feedbacks) = 1 THEN feedbacks[1]
  ELSE LET RECURSIVE Sentences(_)
           Sentences(fs) == IF fs = <<>> THEN <<>> ELSE Head(fs) \o Sentences(Tail(fs))
           sentences == Sentences(feedbacks)
           kept == SelectSeq([i \in 1..Len(sentences) |-> i],
                     LAMBDA i : /\ sentences[i] # "short"
                                /\ \A j \in 1..(i - 1) : sentences[j] # sentences[i])
           all_points == [i \in 1..Len(kept) |-> sentences[kept[i]]]
       IN  IF Len(all_points) <= 3 THEN all_points
           ELSE <<"Multiple models provided consistent feedback:">>
                \o SubSeq(all_points, 1, 3) \o <<"[Summary of model responses]">>

\* student_problem_data: one group per key in the order of first
\* occurrence, its identity and max_possible from the first result
student_problem_data(all) ==
  LET keyOf(r) == group_key(r.student_id, r.problem_id)
      firsts == SelectSeq([i \in 1..Len(all) |-> i],
                  LAMBDA i : \A j \in 1..(i - 1) : keyOf(all[j]) # keyOf(all[i]))
      members(k) == SelectSeq(all, LAMBDA r : keyOf(r) = keyOf(all[firsts[k]]))
  IN  [k \in 1..Len(firsts) |->
        [student_id |-> all[firsts[k]].student_id,
         problem_id |-> all[firsts[k]].problem_id,
         scores |-> [i \in 1..Len(members(k)) |-> members(k)[i].total_score],
         confidences |-> [i \in 1..Len(members(k)) |-> members(k)[i].confidence],
         feedbacks |-> [i \in 1..Len(members(k)) |-> members(k)[i].feedback],
         suggestions |-> UNION {{members(k)[i].suggestions[j] :
                                   j \in 1..Len(members(k)[i].suggestions)} :
                                 i \in 1..Len(members(k))},
         max_possible |-> all[firsts[k]].max_possible]]

\* the averaged GradingResult of one group; its suggestions are the first
\* five of list(set(...)), any five of the distinct ones
averaged_result(data, threshold) ==
  LET n == Len(data.scores)
      S == SumSeq(data.scores)
      C == SumSeq(data.confidences)
      hv == high_variance(data.scores, threshold)
  IN  [problem_id |-> data.problem_id,
       student_id |-> data.student_id,
       scores |-> <<>>,
       total_score |-> round_half_even(10 * S, n),
       max_possible |-> data.max_possible,
       percentage |-> round_half_even(1000 * S, n * data.max_possible),
       feedback |-> summarize_feedback(data.feedbacks),
       variance_note |-> hv,
       suggestions |-> IF Cardinality(data.suggestions) <= 5 THEN data.suggestions
                       ELSE CHOOSE five \in SUBSET data.suggestions :
                              Cardinality(five) = 5,
       confidence |-> round_half_even(C, n),
       flagged_for_review |-> hv \/ C < AggregateConfThreshold * n]

\* config is modelled by its aggregation.variance_threshold, <<>> when it
\* is not configured.  extend(result.suggestions) raises TypeError on None
\* in the grouping loop; feedback.replace raises AttributeError on None
\* when summarize_feedback merges two or more feedbacks.
aggregate_results(run_results, config) ==
  IF run_results = <<>> THEN [exc |-> "", final_results |-> <<>>]
  ELSE LET all == FlattenRuns(run_results)
           variance_threshold ==
             IF config.variance_threshold = <<>> THEN DefaultVarianceThreshold
             ELSE config.variance_threshold[1]
       IN  IF \E i \in 1..Len(all) : all[i].suggestions = NoneValue
           THEN [exc |-> "TypeError", final_results |-> <<>>]
           ELSE IF \E i, j \in 1..Len(all) :
                     /\ i # j
                     /\ group_key(all[i].student_id, all[i].problem_id)
                          = group_key(all[j].student_id, all[j].problem_id)
                     /\ all[i].feedback = NoneValue
           THEN [exc |-> "AttributeError", final_results |-> <<>>]
           ELSE [exc |-> "",
                 final_results |->
                   CHOOSE out \in {[k \in 1..Len(groups) |->
                                     averaged_result(groups[k], variance_threshold)] :
                                   groups \in {student_problem_data(all)}} : TRUE]

\* ---------------------------------------------------------------------
\* Specification of aggregate_results: p_in holds the runs and the
\* configuration, p_out the aggregated lists.

\* what one run can hold: nothing; one result of ann's part_1; a result of
\* another problem or of another student, whose name holds the separator;
\* results of two problems; a result whose suggestions or feedback is None
RunOutcomes ==
  LET RunResult(s, p, score, conf, fb, sg) ==
        [student_id |-> s, problem_id |-> p, total_score |-> score,
         confidence |-> conf, max_possible |-> 100, feedback |-> fb,
         suggestions |-> sg]
      ann == <<"a", "n", "n">>
      good == <<"well explained">>
      RunScores == {60, 65, 80, 82, 84, 90, 95}
  IN  {<<>>}
      \cup {<<RunResult(ann, <<"part_1">>, x, 90, good, <<"add tests">>)>> : x \in RunScores}
      \cup {<<RunResult(ann, <<"part_1">>, 80, c, <<"short", "clear plots">>, <<>>)>> :
              c \in {62, 70}}
      \cup {<<RunResult(ann, <<"part_2">>, 82, 90, good, <<"add tests", "label axes">>)>>,
            <<RunResult(ann \o <<"|", "part_1">>, <<"part_1">>, 84, 70, good, <<>>)>>,
            <<RunResult(ann, <<"part_1">>, 80, 90, good, <<"label axes">>),
              RunResult(ann, <<"part_2">>, 60, 62, <<"short">>, <<>>)>>,
            <<RunResult(ann, <<"part_1">>, 80, 90, good, NoneValue)>>,
            <<RunResult(ann, <<"part_1">>, 80, 90, NoneValue, <<>>)>>}

\* up to MaxRuns runs; the variance threshold not configured, or 1
AggregateInit ==
  /\ p_in \in [run_results : UNION {[1..n -> RunOutcomes] : n \in 0..MaxRuns},
               config : {[variance_threshold |-> <<>>], [variance_threshold |-> <<1>>]}]
  /\ p_out = <<>>
  /\ AgentInit
  /\ llm = "custom"
  /\ rubric_files = {}

AggregateCall ==
  /\ Len(p_out) < MaxCalls
  /\ \E out \in {aggregate_results(p_in.run_results, p_in.config)} :
       p_out' = Append(p_out, out)
  /\ UNCHANGED p_in
  /\ UNCHANGED agent_vars

AggregateNext == AggregateCall

SpecAggregate == AggregateInit /\ [][AggregateNext]_vars

\* the (student_id, problem_id) pairs that occur in at least one run
PairsOf(run_results) ==
  {<<r.student_id, r.problem_id>> :
     r \in {FlattenRuns(run_results)[i] : i \in 1..Len(FlattenRuns(run_results))}}

\* C16: aggregate_results emits exactly one averaged result per distinct
\* (student_id, problem_id) pair that occurs in some run, carrying that
\* pair's student_id and problem_id; runs without results add nothing.
C16_OneResultPerPair ==
  \A c \in 1..Len(p_out) :
    /\ p_out[c].exc = ""
    /\ Len(p_out[c].final_results) = Cardinality(PairsOf(p_in.run_results))
    /\ {<<p_out[c].final_results[k].student_id, p_out[c].final_results[k].problem_id>> :
          k \in 1..Len(p_out[c].final_results)} = PairsOf(p_in.run_results)

\* the scores and the confidences of the results of one pair, in run order
ScoresOf(run_results, pair) ==
  LET all == FlattenRuns(run_results)
      mine == SelectSeq(all, LAMBDA r : <<r.student_id, r.problem_id>> = pair)
  IN  [i \in 1..Len(mine) |-> mine[i].total_score]

ConfidencesOf(run_results, pair) ==
  LET all == FlattenRuns(run_results)
      mine == SelectSeq(all, LAMBDA r : <<r.student_id, r.problem_id>> = pair)
  IN  [i \in 1..Len(mine) |-> mine[i].confidence]

\* the variance threshold in force: the configured one, 15 otherwise
ThresholdInForce ==
  IF p_in.config.variance_threshold = <<>> THEN 15
  ELSE p_in.config.variance_threshold[1]

\* sample standard deviation of xs > t (0 > t for one score), from the
\* squared deviations: sum (x - mean)^2 / (n - 1) > t^2, scaled by n^2
StdevAbove(xs, t) ==
  LET n == Len(xs)
      S == SumSeq(xs)
      D == SumSeq([i \in 1..n |-> (n * xs[i] - S) * (n * xs[i] - S)])
  IN  IF n = 1 THEN 0 > t ELSE D > t * t * n * n * (n - 1)

\* C17: an aggregated result is flagged iff the sample standard deviation
\* of its group's run scores (0 for one run) is strictly above the variance
\* threshold (15 when not configured) or the mean run confidence is
\* strictly below 0.7; with threshold 15 and confidences >= 0.7 the scores
\* [80, 82, 84] are not flagged and [60, 90, 95] are.
C17_FlaggedIffVarianceOrConfidence ==
  \A c \in 1..Len(p_out) : \A k \in 1..Len(p_out[c].final_results) :
    LET pair == <<p_out[c].final_results[k].student_id, p_out[c].final_results[k].problem_id>>
        xs == ScoresOf(p_in.run_results, pair)
        cs == ConfidencesOf(p_in.run_results, pair)
        confident == \A i \in 1..Len(cs) : cs[i] >= 70
    IN  /\ p_out[c].final_results[k].flagged_for_review
            <=> (StdevAbove(xs, ThresholdInForce) \/ SumSeq(cs) < 70 * Len(cs))
        /\ (ThresholdInForce = 15 /\ confident /\ xs = <<80, 82, 84>>)
            => ~p_out[c].final_results[k].flagged_for_review
        /\ (ThresholdInForce = 15 /\ confident /\ xs = <<60, 90, 95>>)
            => p_out[c].final_results[k].flagged_for_review

\* three confident runs of one pair with scores 60, 90, 95 under the
\* default threshold have been aggregated and flagged
C17_Witness ==
  /\ Len(p_out) >= 1
  /\ p_in.config.variance_threshold = <<>>
  /\ Len(p_out[1].final_results) = 1
  /\ ScoresOf(p_in.run_results,
               <<p_out[1].final_results[1].student_id, p_out[1].final_results[1].problem_id>>) = <<60, 90, 95>>
  /\ ConfidencesOf(p_in.run_results,
                    <<p_out[1].final_results[1].student_id, p_out[1].final_results[1].problem_id>>) = <<90, 90, 90>>
  /\ p_out[1].final_results[1].flagged_for_review

\* C18: the aggregated total_score is the mean of the group's run
\* total_scores rounded to one decimal and the aggregated confidence the
\* mean of the run confidences rounded to two decimals (each within half a
\* unit of the last place of the mean); run scores [80, 82, 84] give 82.0.
C18_MeanScoreAndConfidence ==
  \A c \in 1..Len(p_out) : \A k \in 1..Len(p_out[c].final_results) :
    LET pair == <<p_out[c].final_results[k].student_id, p_out[c].final_results[k].problem_id>>
        xs == ScoresOf(p_in.run_results, pair)
        cs == ConfidencesOf(p_in.run_results, pair)
        n == Len(xs)
        dt == p_out[c].final_results[k].total_score * n - 10 * SumSeq(xs)
        dc == p_out[c].final_results[k].confidence * n - SumSeq(cs)
    IN  /\ 2 * dt <= n /\ -2 * dt <= n
        /\ 2 * dc <= n /\ -2 * dc <= n
        /\ xs = <<80, 82, 84>> => p_out[c].final_results[k].total_score = 820

\* three runs of one pair with scores 80, 82, 84 have been aggregated to
\* 82.0, their confidences 0.9, 0.62, 0.9 to 0.81
C18_Witness ==
  /\ Len(p_out) >= 1
  /\ Len(p_out[1].final_results) = 1
  /\ ScoresOf(p_in.run_results,
               <<p_out[1].final_results[1].student_id, p_out[1].final_results[1].problem_id>>) = <<80, 82, 84>>
  /\ p_out[1].final_results[1].total_score = 820
  /\ p_out[1].final_results[1].confidence = 90

\* ---------------------------------------------------------------------
\* RubricManager with the rubric sources and the cached mappings in full.
\* src/rubric_manager.py keeps an assignment in <id>.yaml (kind "yaml"),
\* src/src/reports/rubric_manager.py in <id>.txt (kind "txt").  In this
\* specification rubric_files maps each assignment to what its file holds
\* (NoFile without a file), loaded_rubrics lists the loaded_rubrics
\* dictionaries of the RubricManager instances, p_in holds the kind of the
\* managers and p_out the load_assignment_rubric calls in call order.  A
\* mapping is modelled by its problem ids and their total_points, the
\* mapping object by the number of the call that built it.  The files are
\* read and written without I/O faults.

MaxManagers == 2

RubricAssignments == {"hw1", "hw2"}

NoFile == "no file"

\* what a rubric file can hold: the default rubric as _create_default_rubric
\* writes it, another well-formed rubric, or nothing at all
RubricSources == {"default", "custom", "empty"}

\* the source read and converted to ProblemRubric objects.  _parse_txt_rubric
\* ignores the text it is given; yaml.safe_load gives None on an empty
\* file, and None.items() raises AttributeError
read_rubric_source(kind, source) ==
  IF kind = "txt"
  THEN [exc |-> "",
        mapping |-> [pid \in TxtRubricProblems |-> TxtRubric(pid).total_points]]
  ELSE IF source = "empty" THEN [exc |-> "AttributeError", mapping |-> <<>>]
  ELSE IF source = "default"
  THEN [exc |-> "",
        mapping |-> [pid \in {"part_1", "part_2", "part_3"} |->
                       IF pid = "part_3" THEN 40 ELSE 30]]
  ELSE [exc |-> "", mapping |-> [pid \in {"part_1"} |-> 10]]

\* _create_default_rubric: writes the default rubric to the file of a
create_default_rubric_writes_nothing(files, a) == files

create_default_rubric(files, a) == [files EXCEPT ![a] = "default"]

\* load_assignment_rubric past the cache test: a missing file is created,
\* the file is opened (FileNotFoundError if there is none), read and
\* converted, and the mapping, a new object, is cached and returned
load_from_source(kind, cache, files, a, fresh) ==
  LET created == IF files[a] = NoFile THEN create_default_rubric(files, a) ELSE files
      parsed == read_rubric_source(kind, created[a])
  IN  IF created[a] = NoFile
      THEN [exc |-> "FileNotFoundError", obj |-> 0, mapping |-> <<>>, read |-> FALSE,
            cache |-> cache, files |-> created]
      ELSE IF parsed.exc # ""
      THEN [exc |-> parsed.exc, obj |-> 0, mapping |-> <<>>, read |-> TRUE,
            cache |-> cache, files |-> created]
      ELSE [exc |-> "", obj |-> fresh, mapping |-> parsed.mapping, read |-> TRUE,
            cache |-> [cache EXCEPT ![a] = <<[obj |-> fresh, mapping |-> parsed.mapping]>>],
            files |-> created]

RubricManager_load_never_cached(kind, cache, files, a, fresh) ==
  load_from_source(kind, cache, files, a, fresh)

\* RubricManager.load_assignment_rubric of a manager whose loaded_rubrics is
\* cache: a cached assignment returns the cached object at once
RubricManager_load_assignment_rubric(kind, cache, files, a, fresh) ==
  IF cache[a] # <<>>
  THEN [exc |-> "", obj |-> cache[a][1].obj, mapping |-> cache[a][1].mapping,
        read |-> FALSE, cache |-> cache, files |-> files]
  ELSE load_from_source(kind, cache, files, a, fresh)

RubricInit ==
  /\ p_in \in [kind : {"yaml", "txt"}]
  /\ p_out = <<>>
  /\ loaded_rubrics = <<[a \in RubricAssignments |-> <<>>]>>
  /\ rubric_files \in [RubricAssignments -> RubricSources \cup {NoFile}]
  /\ llm = "custom"
  /\ results = <<>>
  /\ grading_history = <<>>
  /\ pc = "idle"
  /\ assignment_id = ""
  /\ pending = <<>>
  /\ notebook_files = <<>>
  /\ all_results = NoFiles
  /\ dir_raised = {}
  /\ last = NoCall

\* RubricManager(): one more instance, nothing loaded
NewRubricManager ==
  /\ Len(loaded_rubrics) < MaxManagers
  /\ loaded_rubrics' = Append(loaded_rubrics, [a \in RubricAssignments |-> <<>>])
  /\ UNCHANGED <<p_in, p_out, rubric_files, llm, results, grading_history, pc,
                 assignment_id, pending, notebook_files, all_results, dir_raised, last>>

\* manager m loads assignment a
LoadAssignmentRubric ==
  /\ Len(p_out) < MaxCalls
  /\ \E m \in 1..Len(loaded_rubrics), a \in RubricAssignments :
       \E out \in {RubricManager_load_assignment_rubric(
                     p_in.kind, loaded_rubrics[m], rubric_files, a, Len(p_out) + 1)} :
         /\ p_out' = Append(p_out,
              [manager |-> m, assignment |-> a, source |-> rubric_files[a],
               exc |-> out.exc, obj |-> out.obj, mapping |-> out.mapping,
               read |-> out.read, persisted |-> out.files[a]])
         /\ loaded_rubrics' = [loaded_rubrics EXCEPT ![m] = out.cache]
         /\ rubric_files' = out.files
  /\ UNCHANGED <<p_in, llm, results, grading_history, pc,
                 assignment_id, pending, notebook_files, all_results, dir_raised, last>>

\* save_rubric: writes the file of a, loaded_rubrics is not touched
SaveRubric ==
  /\ \E a \in RubricAssignments : rubric_files' = [rubric_files EXCEPT ![a] = "custom"]
  /\ UNCHANGED <<p_in, p_out, loaded_rubrics, llm, results, grading_history, pc,
                 assignment_id, pending, notebook_files, all_results, dir_raised, last>>

\* the file of a is written, rewritten or removed from outside the program
EditRubricSource ==
  /\ \E a \in RubricAssignments, s \in RubricSources \cup {NoFile} :
       rubric_files' = [rubric_files EXCEPT ![a] = s]
  /\ UNCHANGED <<p_in, p_out, loaded_rubrics, llm, results, grading_history, pc,
                 assignment_id, pending, notebook_files, all_results, dir_raised, last>>

RubricNext ==
  \/ NewRubricManager
  \/ LoadAssignmentRubric
  \/ SaveRubric
  \/ EditRubricSource

SpecRubric == RubricInit /\ [][RubricNext]_vars

\* C19: after the first load_assignment_rubric(a) of a manager, every later
\* call of that manager with the same a returns the identical mapping
\* object without reading the source again, whatever happened to the source
\* in between.
C19_LoadedAtMostOnce ==
  \A i, j \in 1..Len(p_out) :
    (i < j /\ p_out[i].manager = p_out[j].manager
           /\ p_out[i].assignment = p_out[j].assignment)
      => (~p_out[j].read /\ p_out[j].obj = p_out[i].obj)

\* C19 (amended): after a load_assignment_rubric(a) of a manager that
\* returned, every later call of that manager with the same a returns the
\* identical mapping object, with the same content, without reading the
\* source again, whatever happened to the source in between.
C19_LoadedAtMostOnceAfterSuccess ==
  \A i, j \in 1..Len(p_out) :
    (i < j /\ p_out[i].manager = p_out[j].manager
           /\ p_out[i].assignment = p_out[j].assignment
           /\ p_out[i].exc = "")
      => /\ p_out[j].exc = ""
         /\ ~p_out[j].read
         /\ p_out[j].obj = p_out[i].obj
         /\ p_out[j].mapping = p_out[i].mapping
         /\ p_out[j].persisted = p_out[j].source

\* a manager loaded the default rubric, the source was rewritten to another
\* rubric, and the manager loaded the same assignment again
C19_Witness ==
  /\ Len(p_out) >= 2
  /\ p_in.kind = "yaml"
  /\ p_out[1].manager = p_out[2].manager
  /\ p_out[1].assignment = p_out[2].assignment
  /\ p_out[1].exc = ""
  /\ p_out[1].persisted = "default"
  /\ p_out[2].source = "custom"
  /\ p_out[2].obj = p_out[1].obj

\* C20: when the assignment has no rubric source, load_assignment_rubric
\* does not fail: it persists the default rubric for that assignment and
\* returns a non-empty mapping.
C20_MissingSourceGetsDefault ==
  \A i \in 1..Len(p_out) :
    p_out[i].source = NoFile
      => /\ p_out[i].exc = ""
         /\ DOMAIN p_out[i].mapping # {}
         /\ p_out[i].persisted = "default"

\* C20 (amended): when the assignment has no rubric source and the manager
\* has not loaded it before, load_assignment_rubric does not fail: it
\* persists the default rubric for that assignment and returns a non-empty
\* mapping; and a manager that has not loaded the assignment before reads
\* a persisted default rubric and returns a non-empty mapping.
C20_MissingSourceGetsDefaultUnlessCached ==
  \A i \in 1..Len(p_out) :
    LET before == \E k \in 1..(i - 1) : /\ p_out[k].manager = p_out[i].manager
                                        /\ p_out[k].assignment = p_out[i].assignment
                                        /\ p_out[k].exc = ""
    IN  /\ (p_out[i].source = NoFile /\ ~before)
            => /\ p_out[i].exc = ""
               /\ DOMAIN p_out[i].mapping # {}
               /\ p_out[i].persisted = "default"
        /\ (p_out[i].source = "default" /\ ~before)
            => /\ p_out[i].exc = ""
               /\ p_out[i].read
               /\ DOMAIN p_out[i].mapping # {}

\* a manager loaded an assignment without a source, then a fresh manager
\* loaded the same assignment from the persisted default
C20_Witness ==
  /\ Len(p_out) >= 2
  /\ p_out[1].source = NoFile
  /\ p_out[1].exc = ""
  /\ p_out[2].manager # p_out[1].manager
  /\ p_out[2].assignment = p_out[1].assignment
  /\ p_out[2].source = "default"
  /\ p_out[2].read
  /\ p_out[2].exc = ""

\* ---------------------------------------------------------------------
\* Specification of _get_execution_output: p_in is a cell with up to
\* MaxOutputs output entries, p_out the summaries of the calls.

MaxOutputs == 3

OutputInit ==
  /\ p_in \in [cell_type : {"code", "markdown"}, tags : {{}}, source : {<<"code">>},
               outputs : UNION {[1..n -> {"stream", "stream_blank", "error",
                                          "execute_result", "execute_result_html",
                                          "execute_result_no_data", "display_data",
                                          "display_svg"}] : n \in 0..MaxOutputs}]
  /\ p_out = <<>>
  /\ AgentInit
  /\ llm = "custom"
  /\ rubric_files = {}

GetExecutionOutputCall ==
  /\ Len(p_out) < MaxCalls
  /\ p_out' = Append(p_out, get_execution_output(p_in))
  /\ UNCHANGED p_in
  /\ UNCHANGED agent_vars

OutputNext == GetExecutionOutputCall

SpecOutput == OutputInit /\ [][OutputNext]_vars

\* C21: an output entry of type execute_result that carries a text/plain
\* representation contributes an EXECUTION RESULT n block, also when the
\* entry was matched by the text or data rule.
C21_ExecuteResultIsAdditive ==
  \A c \in 1..Len(p_out) :
    p_in.cell_type = "code" =>
      \A i \in 1..Len(p_in.outputs) :
        (/\ OutputOf(p_in.outputs[i]).output_type = "execute_result"
         /\ OutputOf(p_in.outputs[i]).has_data
         /\ "text/plain" \in OutputOf(p_in.outputs[i]).data)
          => \E k \in 1..Len(p_out[c]) :
               p_out[c][k] = [label |-> "EXECUTION RESULT", number |-> i]

\* ---------------------------------------------------------------------
\* Notebooks made of sections: an optional answer cell before the first
\* heading, then up to MaxSections sections, each a heading followed by
\* answer cells and cells that are no answer.  Two headings may derive the
\* same problem id.

MaxSections == 2

SectionNotebooks ==
  LET heading(l) == [cell_type |-> "markdown", tags |-> {}, source |-> <<l>>,
                     outputs |-> <<>>]
      tagged == [cell_type |-> "code", tags |-> {"code answer"}, source |-> <<"code">>,
                 outputs |-> <<"stream">>]
      long == [cell_type |-> "markdown", tags |-> {}, source |-> <<"long">>,
               outputs |-> <<>>]
      comment == [cell_type |-> "code", tags |-> {}, source |-> <<"comment">>,
                  outputs |-> <<>>]
      answer_heading == [cell_type |-> "markdown", tags |-> {"text answer"},
                         source |-> <<"part2">>, outputs |-> <<>>]
      Sections == {<<h>> \o body :
                     h \in {heading(l) : l \in {"part1", "part2", "problem1"}}
                            \cup {answer_heading},
                     body \in {<<>>, <<tagged>>, <<long>>, <<comment>>,
                               <<tagged, long>>, <<comment, tagged>>}}
      RECURSIVE Concat(_)
      Concat(ss) == IF ss = <<>> THEN <<>> ELSE Head(ss) \o Concat(Tail(ss))
  IN  {pre \o Concat(ss) :
         pre \in {<<>>, <<tagged>>},
         ss \in UNION {[1..n -> Sections] : n \in 0..MaxSections}}

SectionsInit ==
  /\ p_in \in SectionNotebooks
  /\ p_out = <<>>
  /\ AgentInit
  /\ llm = "MockLLM"
  /\ rubric_files = {}

SpecSections == SectionsInit /\ [][NotebookNext]_vars

\* C22: the list of responses of a notebook never holds two responses with
\* the same problem_id, also when two boundaries derive the same id.
C22_NoTwoResponsesWithOneId ==
  \A c \in 1..Len(p_out) :
    \A i, j \in 1..Len(p_out[c].responses) :
      i # j => p_out[c].responses[i].problem_id # p_out[c].responses[j].problem_id

\* C29: the response spans are disjoint and exclude the headings: the
\* content (and the outputs) of each response are those of the answer cells
\* strictly between its boundary and the next one, in cell order; so no cell
\* contributes to two responses, a boundary heading contributes to none,
\* also when it carries an answer tag, and neither does a cell before the
\* first boundary; the cell_index of a response lies strictly between its
\* boundary's index and the next boundary's.
C29_SpansDisjointAndHeadingFree ==
  \A i \in 1..Len(p_out) :
    LET problems == p_out[i].problems
        responses == p_out[i].responses
        boundaries == {problems[k].cell_index : k \in 1..Len(problems)}
        answered == SelectSeq([k \in 1..Len(problems) |-> k],
                              LAMBDA k : \E j \in SpanOf(problems, k) :
                                           is_answer_cell(p_in[j + 1]))
        CellsOf(m) == SelectSeq([j \in 1..Len(p_in) |-> j - 1],
                                LAMBDA j : /\ j \in SpanOf(problems, answered[m])
                                           /\ is_answer_cell(p_in[j + 1]))
    IN /\ Len(responses) = Len(answered)
       /\ \A m \in 1..Len(responses) :
            LET mine == CellsOf(m) IN
            /\ responses[m].content =
                 [k \in 1..Len(mine) |-> [indicator |-> p_in[mine[k] + 1].cell_type,
                                          source |-> p_in[mine[k] + 1].source]]
            /\ \A k \in 1..Len(responses[m].execution_output) :
                 \E n \in 1..Len(mine) : responses[m].execution_output[k].cell = mine[n]
            /\ \A k \in 1..Len(mine) :
                 /\ mine[k] \notin boundaries
                 /\ mine[k] > problems[1].cell_index
                 /\ \A n \in 1..Len(responses) :
                      n # m => \A q \in 1..Len(CellsOf(n)) : CellsOf(n)[q] # mine[k]
            /\ responses[m].cell_index > problems[answered[m]].cell_index
            /\ answered[m] < Len(problems)
                 => responses[m].cell_index < problems[answered[m] + 1].cell_index

\* an answer cell before the first boundary, then two boundaries with one
\* answer cell each, the second heading carrying an answer tag: two
\* responses of one cell each, none holding cell 0 or a heading
C29_Witness ==
  /\ Len(p_out) >= 1
  /\ Len(p_in) = 5
  /\ is_answer_cell(p_in[1])
  /\ is_answer_cell(p_in[4])
  /\ Len(p_out[1].problems) = 2
  /\ p_out[1].problems[1].cell_index = 1
  /\ p_out[1].problems[2].cell_index = 3
  /\ Len(p_out[1].responses) = 2
  /\ Len(p_out[1].responses[1].content) = 1
  /\ Len(p_out[1].responses[2].content) = 1
  /\ p_out[1].responses[1].cell_index = 2
  /\ p_out[1].responses[2].cell_index = 4

\* ---------------------------------------------------------------------
\* The classifier on markdown cells without an answer tag, of up to
\* MaxMarkdownLines lines: prose short and long, headings, answer lines.
\* ---------------------------------------------------------------------
MaxMarkdownLines == 6

MarkdownInit ==
  /\ p_in \in [cell_type : {"markdown"}, tags : {{}, {"task"}}, outputs : {<<>>},
               source : UNION {[1..k -> {"blank", "code", "part1", "answer", "long"}] :
                                 k \in 0..MaxMarkdownLines}]
  /\ p_out = <<>>
  /\ AgentInit
  /\ llm = "MockLLM"
  /\ rubric_files = {}

SpecMarkdown == MarkdownInit /\ [][CellNext]_vars

\* the stripped content has at most 5 lines and a problem-statement
\* indicator ('##', two characters) lies within its first 100 characters
Suppressed(content) ==
  /\ Len(content) <= 5
  /\ \E i \in 1..Len(content) :
       HasProblemIndicator(content[i]) /\ LineOffset(content, i) + 1 < 100

\* C23: an untagged markdown cell with a non-empty source is no answer if
\* its content has at most 5 lines and a problem-statement indicator within
\* its first 100 characters; otherwise it is one if it holds an answer
\* indicator; otherwise it is one iff its content is longer than 50
\* characters.  A cell of more than 5 lines is never suppressed, and an
\* answer indicator makes a non-suppressed cell of 50 characters or fewer an
\* answer.
C23_MarkdownThreeStages ==
  \A c \in 1..Len(p_out) :
    LET content == Strip(p_in.source)
        indicated == \E i \in 1..Len(content) : HasAnswerIndicator(content[i])
    IN  p_in.source # <<>> =>
          /\ Suppressed(content) => p_out[c] = FALSE
          /\ (~Suppressed(content) /\ indicated) => p_out[c] = TRUE
          /\ (~Suppressed(content) /\ ~indicated)
               => (p_out[c] = TRUE <=> ContentLen(content) > 50)

\* a cell of six lines that starts with a heading and holds an answer line,
\* classified as an answer; its first five lines alone would be suppressed
C23_Witness ==
  /\ Len(p_out) >= 1
  /\ p_in.source = <<"part1", "code", "blank", "code", "code", "answer">>
  /\ ContentLen(Strip(p_in.source)) <= 100
  /\ Suppressed(SubSeq(p_in.source, 1, 5))
  /\ p_out[1] = TRUE

\* ---------------------------------------------------------------------
\* aggregate_results on identifiers that contain the key's separator
\* ---------------------------------------------------------------------
\* runs of the student "ann|part_1" on the problem "x" and of the student
\* "ann" on the problems "part_1|x", "part_1" and "x"
CollisionOutcomes ==
  LET RunResult(s, p, score) ==
        [student_id |-> s, problem_id |-> p, total_score |-> score,
         confidence |-> 90, max_possible |-> 100, feedback |-> <<"well explained">>,
         suggestions |-> <<"add tests">>]
      ann == <<"a", "n", "n">>
  IN  {<<>>,
       <<RunResult(ann \o <<"|", "part_1">>, <<"x">>, 84)>>,
       <<RunResult(ann, <<"part_1", "|", "x">>, 60)>>,
       <<RunResult(ann, <<"part_1">>, 80)>>,
       <<RunResult(ann, <<"x">>, 90), RunResult(ann, <<"part_1">>, 82)>>}

CollisionInit ==
  /\ p_in \in [run_results : UNION {[1..n -> CollisionOutcomes] : n \in 0..MaxRuns},
               config : {[variance_threshold |-> <<>>], [variance_threshold |-> <<1>>]}]
  /\ p_out = <<>>
  /\ AgentInit
  /\ llm = "custom"
  /\ rubric_files = {}

SpecCollision == CollisionInit /\ [][AggregateNext]_vars

====
